---- MODULE Spec2Model ----
(***************************************************************************)
(* P2PFileTransfer (src/src/lib/p2pTransfer.ts): one engine, its peer      *)
(* registry and its sendFile operations, and for every transport the       *)
(* remote end of the data channel, which runs the same setupDataChannel    *)
(* message handler on the other device.                                    *)
(*                                                                         *)
(* File contents are symbolic: the bytes of the file passed to the s-th    *)
(* sendFile call are (s, 0) .. (s, size-1), and a run of them is a slice   *)
(* [sid, from, to).  Sizes are real byte counts (chunkSize = 16384).       *)
(*                                                                         *)
(* Strings that travel in descriptors (peer ids, display names, SDP text)   *)
(* are sequences of UTF-16 code units, and a descriptor is the Base64 text  *)
(* of the JSON text of an object, computed character by character.         *)
(*                                                                         *)
(* Spec: the engine with files of 0, 100, 16384 and 40000 bytes.           *)
(* BackpressureSpec: the same engine sending a 170000-byte file first.     *)
(* ReceiverSpec: the message handler fed any sequence of messages.         *)
(* SignalingSpec: createOffer, acceptOffer, completeConnection, the channel *)
(* events and disconnect.  DescriptorSpec: well-formed and malformed       *)
(* descriptors; NegotiationSpec: the same with fair awaits.                *)
(* CancelSpec: sendFile with close and disconnect, timers and transport    *)
(* fair.  SendFilesSpec: the Send buttons of P2PFileSharing.tsx.           *)
(* UploadSpec: uploadFile of FileUpload.tsx against storage and tables.    *)
(* TwoPeersSpec: the message handler on two channels at once.             *)
(* OfflineSpec: processUploadQueue of OfflineManager.tsx and the queue      *)
(* store.  ScreenSpec: the Send and Receive tabs of P2PFileSharing.tsx.     *)
(***************************************************************************)
EXTENDS Integers, Sequences, FiniteSets, TLC

\* ---------------------------------------------------------------- bounds
MaxTransports == 1
MaxSends == 2
MaxFrames == 4
MaxNegotiations == 2
MaxCompletes == 2
MaxPresses == 2
MaxUploads == 2
MaxQueued == 2
MaxRuns == 2

\* ------------------------------------------------------ program constants
chunkSize == 16384
HighWaterFactor == 10

Max(a, b) == IF a < b THEN b ELSE a

\* createOffer / acceptOffer calls (each makes at most one transport), sendFile
\* calls and completeConnection calls
Transports == 1..Max(MaxTransports, MaxNegotiations)
Sends == 1..MaxSends
Presses == 1..MaxPresses
Uploads == 1..MaxUploads
Runs == 1..MaxRuns
\* ids of queued uploads: those queued at first and those queued again
QueueIds == 1..(2 * MaxQueued)
Completes == 1..Max(MaxTransports, MaxCompletes)

Null == "null"

\* JavaScript values: a string (its UTF-16 code units), an object (its
\* properties in insertion order), null, and undefined.
Str(s) == [str |-> s]
Obj(fields) == [obj |-> fields]
JsNull == [null |-> TRUE]
Undefined == [undefined |-> TRUE]

IsStr(v) == DOMAIN v = {"str"}
IsObj(v) == DOMAIN v = {"obj"}

\* this.localPeerId ("pL" for peer_<time>_<random>), the id of the peer on the
\* other device ("pR") and its display name ("Bob")
localPeerId == Str(<< 112, 76 >>)
RemoteIds == { Str(<< 112, 82 >>) }
PeerIds == {localPeerId} \cup RemoteIds
RemoteName(rid) == Str(<< 66, 111, 98 >>)

\* the display names a user may give the engine: "Ana", "Zoe" with a
\* diaeresis (U+00EB), and a name of one CJK character (U+674E)
Ana == Str(<< 65, 110, 97 >>)
LocalNames == { Ana, Str(<< 90, 111, 235 >>), Str(<< 26446 >>) }

\* keys of this.peers: a peer id, or undefined when a descriptor carries none
Keys == PeerIds \cup {Undefined}

\* fileMetadata = null, and the file of a sendFile call not yet made
NoFile == [name |-> Null, size |-> 0, type |-> Null]

\* The File objects handed to sendFile: empty, smaller than a frame, an exact
\* multiple of the frame size, and a size with a remainder.
Files ==
  { [name |-> "empty.txt", size |-> 0, type |-> "text/plain"],
    [name |-> "small.txt", size |-> 100, type |-> "text/plain"],
    [name |-> "exact.bin", size |-> 16384, type |-> "application/octet-stream"],
    [name |-> "rem.bin", size |-> 40000, type |-> "application/octet-stream"] }

\* A file of more frames than the high-water mark holds (11 frames), and the
\* file sent after it.
BigFile == [name |-> "big.iso", size |-> 170000, type |-> "application/octet-stream"]
SmallFile == [name |-> "small.txt", size |-> 100, type |-> "text/plain"]

Min(a, b) == IF a < b THEN a ELSE b

\* number of decimal digits of a non-negative integer
RECURSIVE Digits(_)
Digits(n) == IF n < 10 THEN 1 ELSE 1 + Digits(n \div 10)

\* JSON.stringify({name, size, type}): the text of the metadata frame, as the
\* sequence of its keys and values in insertion order.
Stringify(f) == << "name", f.name, "size", f.size, "type", f.type >>

\* JSON.parse of a metadata text: the object with the values found under the
\* three keys.
Parse(txt) ==
  [ name |-> txt[2], size |-> txt[4], type |-> txt[6] ]

\* UTF-8 length of the metadata text {"name":"..","size":N,"type":".."}
TextBytes(txt) == 29 + Len(txt[2]) + Digits(txt[4]) + Len(txt[6])

\* frames on a channel
TextFrame(s, f) == [kind |-> "text", sid |-> s, data |-> Stringify(f)]
BinFrame(s, from, to) == [kind |-> "bin", sid |-> s, from |-> from, to |-> to]

\* a slice whose end is not clamped to the file size
SliceUnclamped(s, f, offset) == BinFrame(s, offset, offset + chunkSize)

\* file.slice(offset, offset + chunkSize) followed by arrayBuffer()
Slice(s, f, offset) == BinFrame(s, offset, Min(offset + chunkSize, f.size))

byteLength(fr) == IF fr.kind = "text" THEN TextBytes(fr.data) ELSE fr.to - fr.from

\* receivedChunks.reduce((acc, chunk) => acc + chunk.byteLength, 0)
RECURSIVE SumBytes(_)
SumBytes(q) == IF q = << >> THEN 0 ELSE byteLength(Head(q)) + SumBytes(Tail(q))

\* new Blob(receivedChunks): the concatenation of the chunks' bytes, as the
\* list of maximal runs of consecutive bytes of one source.
RECURSIVE Blob(_)
Blob(q) ==
  IF q = << >> THEN << >>
  ELSE LET rest == Blob(Tail(q))
           h == [sid |-> Head(q).sid, from |-> Head(q).from, to |-> Head(q).to]
       IN  IF h.from = h.to THEN rest
           ELSE IF rest # << >> /\ rest[1].sid = h.sid /\ rest[1].from = h.to
                THEN << [sid |-> h.sid, from |-> h.from, to |-> rest[1].to] >> \o Tail(rest)
                ELSE << h >> \o rest

\* the bytes of the file given to the s-th sendFile call
FileBytes(s, f) == IF f.size = 0 THEN << >> ELSE << [sid |-> s, from |-> 0, to |-> f.size] >>

\* ------------------------------------------------------------- descriptors
\* the property names and literals of the descriptors, as code units
K_type == << 116, 121, 112, 101 >>
K_sdp == << 115, 100, 112 >>
K_peerId == << 112, 101, 101, 114, 73, 100 >>
K_peerName == << 112, 101, 101, 114, 78, 97, 109, 101 >>
S_offer == << 111, 102, 102, 101, 114 >>
S_answer == << 97, 110, 115, 119, 101, 114 >>
S_null == << 110, 117, 108, 108 >>

\* value.key of an object: the last property of that name, else undefined
RECURSIVE Get(_, _)
Get(v, key) ==
  IF v.obj = << >> THEN Undefined
  ELSE LET last == v.obj[Len(v.obj)]
       IN  IF last.k = key THEN last.v
           ELSE Get(Obj(SubSeq(v.obj, 1, Len(v.obj) - 1)), key)

\* JSON.stringify of a string: quotes, with ", \, LF and CR escaped
RECURSIVE Quoted(_)
Quoted(s) ==
  IF s = << >> THEN << >>
  ELSE LET c == Head(s)
           e == IF c = 34 THEN << 92, 34 >>
                ELSE IF c = 92 THEN << 92, 92 >>
                ELSE IF c = 10 THEN << 92, 110 >>
                ELSE IF c = 13 THEN << 92, 114 >>
                ELSE << c >>
       IN  e \o Quoted(Tail(s))

\* JSON.stringify(value): properties whose value is undefined are left out
RECURSIVE JSONstringify(_), Members(_, _)
JSONstringify(v) ==
  IF IsStr(v) THEN << 34 >> \o Quoted(v.str) \o << 34 >>
  ELSE IF IsObj(v) THEN << 123 >> \o Members(v.obj, TRUE) \o << 125 >>
  ELSE S_null

Members(fields, first) ==
  IF fields = << >> THEN << >>
  ELSE LET f == Head(fields) IN
       IF f.v = Undefined THEN Members(Tail(fields), first)
       ELSE (IF first THEN << >> ELSE << 44 >>)
            \o << 34 >> \o Quoted(f.k) \o << 34, 58 >> \o JSONstringify(f.v)
            \o Members(Tail(fields), FALSE)

Thrown(name) == [ok |-> FALSE, error |-> name]
Value(v) == [ok |-> TRUE, v |-> v]

\* JSON.parse, for texts made of objects, strings and null: each operator
\* reads one construct at position i and returns the value and the position
\* after it, or fails.
NoParse == [ok |-> FALSE, v |-> Undefined, next |-> 0]

RECURSIVE ParseChars(_, _, _)
ParseChars(txt, i, acc) ==
  IF i > Len(txt) THEN NoParse
  ELSE LET c == txt[i] IN
       IF c = 34 THEN [ok |-> TRUE, v |-> Str(acc), next |-> i + 1]
       ELSE IF c < 32 THEN NoParse
       ELSE IF c # 92 THEN ParseChars(txt, i + 1, Append(acc, c))
       ELSE IF i + 1 > Len(txt) THEN NoParse
       ELSE LET e == txt[i + 1] IN
            IF e = 34 \/ e = 92 THEN ParseChars(txt, i + 2, Append(acc, e))
            ELSE IF e = 110 THEN ParseChars(txt, i + 2, Append(acc, 10))
            ELSE IF e = 114 THEN ParseChars(txt, i + 2, Append(acc, 13))
            ELSE NoParse

RECURSIVE ParseValue(_, _), ParseMembers(_, _, _)
ParseValue(txt, i) ==
  IF i > Len(txt) THEN NoParse
  ELSE IF txt[i] = 34 THEN ParseChars(txt, i + 1, << >>)
  ELSE IF txt[i] = 123
       THEN IF i + 1 <= Len(txt) /\ txt[i + 1] = 125
            THEN [ok |-> TRUE, v |-> Obj(<< >>), next |-> i + 2]
            ELSE ParseMembers(txt, i + 1, << >>)
  ELSE IF i + 3 <= Len(txt) /\ SubSeq(txt, i, i + 3) = S_null
       THEN [ok |-> TRUE, v |-> JsNull, next |-> i + 4]
  ELSE NoParse

ParseMembers(txt, i, acc) ==
  IF i > Len(txt) \/ txt[i] # 34 THEN NoParse
  ELSE LET key == ParseChars(txt, i + 1, << >>) IN
       IF ~key.ok \/ key.next > Len(txt) \/ txt[key.next] # 58 THEN NoParse
       ELSE LET val == ParseValue(txt, key.next + 1) IN
            IF ~val.ok \/ val.next > Len(txt) THEN NoParse
            ELSE LET fields == Append(acc, [k |-> key.v.str, v |-> val.v]) IN
                 IF txt[val.next] = 125
                 THEN [ok |-> TRUE, v |-> Obj(fields), next |-> val.next + 1]
                 ELSE IF txt[val.next] = 44
                 THEN ParseMembers(txt, val.next + 1, fields)
                 ELSE NoParse

JSONparse(txt) ==
  LET r == ParseValue(txt, 1) IN
  IF r.ok /\ r.next = Len(txt) + 1 THEN Value(r.v) ELSE Thrown("SyntaxError")

\* Base64 text is a sequence of alphabet indices 0..63 (A-Z a-z 0-9 + /),
\* with 64 for the padding character = and larger numbers for any other
\* character.
Pad == 64

RECURSIVE Sextets(_)
Sextets(s) ==
  IF s = << >> THEN << >>
  ELSE IF Len(s) = 1
       THEN << s[1] \div 4, (s[1] % 4) * 16, Pad, Pad >>
  ELSE IF Len(s) = 2
       THEN << s[1] \div 4, (s[1] % 4) * 16 + s[2] \div 16, (s[2] % 16) * 4, Pad >>
  ELSE << s[1] \div 4, (s[1] % 4) * 16 + s[2] \div 16,
          (s[2] % 16) * 4 + s[3] \div 64, s[3] % 64 >>
       \o Sextets(SubSeq(s, 4, Len(s)))

\* btoa(s): throws when s has a code unit above 255
btoa(s) ==
  IF \E i \in 1..Len(s) : s[i] > 255 THEN Thrown("InvalidCharacterError")
  ELSE Value(Sextets(s))

RECURSIVE Octets(_)
Octets(b) ==
  IF Len(b) < 2 THEN << >>
  ELSE IF Len(b) = 2 THEN << b[1] * 4 + b[2] \div 16 >>
  ELSE IF Len(b) = 3
       THEN << b[1] * 4 + b[2] \div 16, (b[2] % 16) * 16 + b[3] \div 4 >>
  ELSE << b[1] * 4 + b[2] \div 16, (b[2] % 16) * 16 + b[3] \div 4,
          (b[3] % 4) * 64 + b[4] >>
       \o Octets(SubSeq(b, 5, Len(b)))

\* atob(b): one or two padding characters are dropped from a text whose
\* length is a multiple of 4; throws when a character is outside the alphabet
\* or the remaining length is 1 modulo 4
atob(b) ==
  LET n == Len(b)
      pads == IF n % 4 = 0 /\ n > 0 /\ b[n] = Pad
              THEN (IF b[n - 1] = Pad THEN 2 ELSE 1) ELSE 0
      data == SubSeq(b, 1, n - pads)
  IN  IF (\E i \in 1..Len(data) : data[i] > 63) \/ Len(data) % 4 = 1
      THEN Thrown("InvalidCharacterError")
      ELSE Value(Octets(data))

\* btoa(JSON.stringify(data))
Encode(data) == btoa(JSONstringify(data))

\* JSON.parse(atob(code))
Decode(code) ==
  LET text == atob(code) IN
  IF ~text.ok THEN text ELSE JSONparse(text.v)

VARIABLES
  isSender,       \* P2PFileSharing: the isSender state
  connectionCode, \* P2PFileSharing: the transport whose offer code is shown (0: "")
  inputCode,      \* P2PFileSharing: the inputCode state (<< >>: "")
  pendingAnswer,  \* P2PFileSharing: the transport whose answer code is shown (0: "")
  resumed,        \* P2PFileSharing: the engine calls whose await has resumed
  queueStore,     \* IndexedDB store 'uploadQueue': id -> "absent", "Blob", "File"
  uploadQueue,    \* OfflineManager: the uploadQueue state
  isOnline,       \* useOnlineStatus()
  isProcessingQueue, \* OfflineManager: the isProcessingQueue state
  processedCount, \* OfflineManager: the processedCount state
  runs,           \* OfflineManager: the processUploadQueue calls
  handed,         \* the onUploadFile calls, in order, and what became of each
  uploadCalls,    \* FileUpload: the uploadFile calls
  uploads,        \* FileUpload: the uploads state (one UploadProgress per call)
  storage,        \* bucket 'file-chunks': path -> "absent", "inflight", "stored"
  file_chunks,    \* rows of table file_chunks
  shared_files,   \* rows of table shared_files, by id
  selectedFiles,  \* the component's selectedFiles state
  sendFilesCalls, \* the component's sendFiles calls, one per press of a Send button
  toSend,         \* the File object the user hands to each sendFile call
  localPeerName,  \* this.localPeerName, the display name given to the constructor
  limit,          \* calls the user makes at most: transports, completes
  peers,          \* this.peers: key -> index of the peer object (0: no entry)
  peer,           \* the P2PPeer objects, one per transport: id, name, dataChannel
  nextT,          \* number of createOffer / acceptOffer calls so far, plus one
  call,           \* the createOffer / acceptOffer call of each transport
  cc,             \* the completeConnection calls
  connection,     \* RTCPeerConnection of each transport: "none", "open", "closed"
  remoteDescription, \* RTCPeerConnection.remoteDescription of each transport
  readyState,     \* local RTCDataChannel.readyState of each transport
  buffered,       \* frames handed to channel.send and not yet transmitted
  wire,           \* frames transmitted and not yet delivered to the remote end
  sf,             \* the sendFile calls: position, arguments, locals, results
  peerEvents,     \* onPeerConnected / onPeerDisconnected calls of the engine
  recvState,      \* remote end of each channel: "none", "open", "closed"
  fileMetadata,   \* remote end: setupDataChannel's fileMetadata
  receivedChunks, \* remote end: setupDataChannel's receivedChunks
  received,       \* remote end: onTransferProgress / onFileReceived calls
  recvLog         \* remote end: every message event handled so far

vars == << isSender, connectionCode, inputCode, pendingAnswer, resumed,
           queueStore, uploadQueue, isOnline, isProcessingQueue, processedCount,
           runs, handed, uploadCalls, uploads, storage, file_chunks, shared_files,
           selectedFiles, sendFilesCalls, toSend, localPeerName, limit, peers, peer,
           nextT, call, cc, connection,
           remoteDescription, readyState, buffered, wire, sf, peerEvents, recvState,
           fileMetadata, receivedChunks, received, recvLog >>

screenVars == << isSender, connectionCode, inputCode, pendingAnswer, resumed >>
offlineVars == << queueStore, uploadQueue, isOnline, isProcessingQueue, processedCount,
                 runs, handed >>
callVars == << localPeerName, limit, call, cc, remoteDescription >>
cloudVars == << uploadCalls, uploads, storage, file_chunks, shared_files, offlineVars,
               screenVars >>

callerVars == << selectedFiles, sendFilesCalls >>

engineVars == << cloudVars, callerVars, toSend, peers, peer, nextT, connection,
                peerEvents, callVars >>
receiverVars == << fileMetadata, receivedChunks, received, recvLog >>

NoPeer == [id |-> Undefined, name |-> Undefined, dataChannel |-> FALSE]

\* a createOffer / acceptOffer call: which of the two, where it stands
\* ("negotiating": awaiting the descriptions, "gathering": awaiting ICE
\* gathering, "returned", "failed"), the offerData of acceptOffer, and the
\* error thrown
NoCall == [op |-> "none", pc |-> "idle", offerData |-> Undefined, error |-> Null]

\* a completeConnection call: where it stands ("applying": awaiting
\* setRemoteDescription, "done", "failed"), the transport it found under the
\* local id, answerData, the error thrown, and the number of createOffer /
\* acceptOffer calls made before it
IdleComplete ==
  [pc |-> "idle", t |-> 0, answerData |-> Undefined, error |-> Null, after |-> 0]

IdleSend ==
  [ pc |-> "idle", peerId |-> Undefined, file |-> NoFile, chan |-> 0, offset |-> 0,
    found |-> Null, error |-> Null, sent |-> << >>, progress |-> << >> ]

\* FileUpload.tsx: chunk size in bytes, attempts per chunk, and wait between
\* attempts in milliseconds
CHUNK_SIZE == 50 * 1024 * 1024
retries == 3
RetryDelay == 2000

\* the files given to uploadFile: no chunk, one full chunk, and a full chunk
\* with a remainder
UploadFiles ==
  { [name |-> n, size |-> z] :
      n \in {"a.bin", "b.bin"}, z \in {0, CHUNK_SIZE, CHUNK_SIZE + 1000} }

\* splitFileIntoChunks(file): the sizes of the chunks
RECURSIVE splitFrom(_, _)
splitFrom(size, offset) ==
  IF offset < size
  THEN << Min(offset + CHUNK_SIZE, size) - offset >> \o splitFrom(size, offset + CHUNK_SIZE)
  ELSE << >>

splitFileIntoChunks(file) == splitFrom(file.size, 0)

\* `${sharedFile.id}/chunk_${i}`
chunkPath(id, i) == << id, i >>

Paths == { chunkPath(id, i) : id \in Uploads, i \in 0..1 }

\* no row of shared_files with this id
NoRow == [total_chunks |-> 0, upload_status |-> "none"]

\* an uploadFile call: its file and chunks, the id of its shared_files row,
\* the chunk index i and the retries left, and what it did: storage uploads
\* started (chunk index), timers set (delay), toasts shown
IdleUpload ==
  [ pc |-> "idle", file |-> NoFile, chunks |-> << >>, id |-> 0, i |-> 0, retries |-> 0,
    error |-> Null, attempts |-> << >>, waits |-> << >>, toasts |-> << >> ]

\* a sendFiles call: the peer id of the button, the selectedFiles its closure
\* holds, and the sendFile calls it has made, one per file, in order
IdleSendFiles == [ pc |-> "idle", peerId |-> Undefined, files |-> << >>, sends |-> << >> ]

\* a processUploadQueue call: where it stands ("removing": awaiting
\* removeFromUploadQueue, "loading": awaiting loadOfflineData), the uploadQueue
\* of its closure, its loop index, and the errors its catch has handled
IdleRun == [ pc |-> "idle", queue |-> << >>, i |-> 0, failed |-> 0 ]

\* nothing queued, online, no processing
EmptyQueue ==
  /\ queueStore = [id \in QueueIds |-> "absent"]
  /\ uploadQueue = << >>
  /\ isOnline = TRUE
  /\ isProcessingQueue = FALSE
  /\ processedCount = 0
  /\ runs = [r \in Runs |-> IdleRun]
  /\ handed = << >>

FreshTransfer ==
  /\ isSender = FALSE
  /\ connectionCode = 0
  /\ inputCode = << >>
  /\ pendingAnswer = 0
  /\ resumed = {}
  /\ uploadCalls = [u \in Uploads |-> IdleUpload]
  /\ uploads = << >>
  /\ storage = [path \in Paths |-> "absent"]
  /\ file_chunks = {}
  /\ shared_files = [id \in Uploads |-> NoRow]
  /\ selectedFiles = << >>
  /\ sendFilesCalls = [b \in Presses |-> IdleSendFiles]
  /\ peers = [p \in Keys |-> 0]
  /\ peer = [t \in Transports |-> NoPeer]
  /\ nextT = 1
  /\ call = [t \in Transports |-> NoCall]
  /\ cc = [c \in Completes |-> IdleComplete]
  /\ connection = [t \in Transports |-> "none"]
  /\ remoteDescription = [t \in Transports |-> Undefined]
  /\ readyState = [t \in Transports |-> "none"]
  /\ buffered = [t \in Transports |-> << >>]
  /\ wire = [t \in Transports |-> << >>]
  /\ sf = [s \in Sends |-> IdleSend]
  /\ peerEvents = << >>
  /\ recvState = [t \in Transports |-> "none"]
  /\ fileMetadata = [t \in Transports |-> NoFile]
  /\ receivedChunks = [t \in Transports |-> << >>]
  /\ received = [t \in Transports |-> << >>]
  /\ recvLog = [t \in Transports |-> << >>]

Fresh ==
  /\ EmptyQueue
  /\ FreshTransfer

\* a user called Ana who connects to one peer
OnePeer ==
  /\ localPeerName = Ana
  /\ limit = [transports |-> MaxTransports, completes |-> MaxTransports]

Init ==
  /\ toSend \in [Sends -> Files]
  /\ OnePeer
  /\ Fresh

\* the same engine, asked to send one large file and then small ones
BackpressureInit ==
  /\ toSend = [s \in Sends |-> IF s = 1 THEN BigFile ELSE SmallFile]
  /\ OnePeer
  /\ Fresh

\* RTCDataChannel.bufferedAmount
bufferedAmount(t) == SumBytes(buffered[t])

HighWaterMark == chunkSize * HighWaterFactor

Emit(log, e) == Append(log, e)

\* ------------------------------------------------------------ negotiation
\* SDP texts: "v=0", CR, LF, "a=", and a mark that tells the sessions apart:
\* the transport's number for a local description, "R" for the offer of the
\* peer, and the transport's number followed by "R" for the answer the peer
\* makes to the offer of that transport.
SdpText(mark) == << 118, 61, 48, 13, 10, 97, 61 >> \o mark
LocalMark(t) == << 48 + t >>
RemoteMark == << 82 >>
AnswerMark(t) == << 48 + t, 82 >>

\* an RTCSessionDescription as JSON.stringify sees it (toJSON)
Description(type, text) ==
  Obj(<< [k |-> K_type, v |-> Str(type)], [k |-> K_sdp, v |-> Str(text)] >>)

\* the object createOffer and acceptOffer encode
Descriptor(type, sdp, peerId, peerName) ==
  Obj(<< [k |-> K_type, v |-> Str(type)], [k |-> K_sdp, v |-> sdp],
         [k |-> K_peerId, v |-> peerId], [k |-> K_peerName, v |-> peerName] >>)

\* offerData of createOffer and answerData of acceptOffer on transport t
offerData(t) ==
  Descriptor(S_offer, Description(S_offer, SdpText(LocalMark(t))),
             localPeerId, localPeerName)

answerData(t) ==
  Descriptor(S_answer, Description(S_answer, SdpText(LocalMark(t))),
             localPeerId, localPeerName)

\* what the engine of the peer encodes: its offer, and its answer to the
\* offer of transport t (t = 0: an offer of an earlier session)
RemoteOffer(rid) ==
  Descriptor(S_offer, Description(S_offer, SdpText(RemoteMark)), rid, RemoteName(rid))

RemoteAnswer(rid, t) ==
  Descriptor(S_answer, Description(S_answer, SdpText(AnswerMark(t))), rid, RemoteName(rid))

\* the descriptor without one of its properties
RECURSIVE Without(_, _)
Without(fields, key) ==
  IF fields = << >> THEN << >>
  ELSE IF Head(fields).k = key THEN Without(Tail(fields), key)
  ELSE << Head(fields) >> \o Without(Tail(fields), key)

DescriptorKeys == { K_type, K_sdp, K_peerId, K_peerName }

\* codes a user may paste that no engine produced: text that is not Base64
\* ("!" and a text of five characters), Base64 of text that is not JSON
\* ("{"), of the JSON text null, and of an offer that lacks a property
NotBase64 == { << 65 >>, << 0, 1, 2, 3, 4 >> }
NotJSON == { Sextets(<< 123 >>) }
NullCode == Sextets(S_null)
Lacking(data, key) == Encode(Obj(Without(data.obj, key))).v

MalformedOffers ==
  NotBase64 \cup NotJSON \cup {NullCode}
  \cup { Lacking(RemoteOffer(rid), key) : rid \in RemoteIds, key \in DescriptorKeys }

WellFormedOffers == { Encode(RemoteOffer(rid)).v : rid \in RemoteIds }

\* the answers of the peer: to every offer this engine has returned, and to
\* an offer of an earlier session (transport 0)
Answerable == { t \in Transports : call[t].op = "createOffer" /\ call[t].pc = "returned" }

AnswerCodes ==
  [ t \in {0} \cup Transports |-> { Encode(RemoteAnswer(rid, t)).v : rid \in RemoteIds } ]

Answers == UNION { AnswerCodes[t] : t \in Answerable }

StaleAnswers == AnswerCodes[0]

\* an answer whose description the transport rejects: its sdp is not SDP text
RejectedAnswers ==
  { Encode(Descriptor(S_answer, Description(S_answer, << 120 >>),
                      rid, RemoteName(rid))).v : rid \in RemoteIds }

\* JSON.parse(atob(code)) of every code above
PastedCodes ==
  WellFormedOffers \cup MalformedOffers \cup RejectedAnswers
  \cup UNION { AnswerCodes[t] : t \in {0} \cup Transports }

Decoded == [ code \in PastedCodes |-> Decode(code) ]

\* what setRemoteDescription accepts as a description of the type: an object
\* with that type whose sdp is SDP text
IsDescription(v, type) ==
  /\ IsObj(v)
  /\ Get(v, K_type) = Str(type)
  /\ IsStr(Get(v, K_sdp))
  /\ Len(Get(v, K_sdp).str) > 7
  /\ SubSeq(Get(v, K_sdp).str, 1, 7) = SdpText(<< >>)

\* createOffer up to its first await: a new transport with a proactively
\* opened channel, stored in the registry under the engine's own id.
createOffer ==
  /\ nextT <= limit.transports
  /\ LET t == nextT IN
       /\ peer' = [peer EXCEPT ![t] =
                     [id |-> localPeerId, name |-> localPeerName, dataChannel |-> TRUE]]
       /\ connection' = [connection EXCEPT ![t] = "open"]
       /\ readyState' = [readyState EXCEPT ![t] = "connecting"]
       /\ peers' = [peers EXCEPT ![localPeerId] = t]
       /\ call' = [call EXCEPT ![t] = [NoCall EXCEPT !.op = "createOffer",
                                                       !.pc = "negotiating"]]
       /\ nextT' = nextT + 1
  /\ UNCHANGED << cloudVars, callerVars, toSend, localPeerName, limit, cc,
                  remoteDescription, buffered, wire, sf, peerEvents, recvState,
                  receiverVars >>

\* acceptOffer up to its first await: the code is decoded, and a new transport
\* without a channel is made for the peer the offer names; nothing is stored
\* in the registry yet.
acceptOffer(offerCode) ==
  /\ nextT <= limit.transports
  /\ LET t == nextT
         decoded == Decoded[offerCode]
     IN  /\ IF ~decoded.ok \/ ~IsObj(decoded.v)
            THEN /\ call' = [call EXCEPT ![t] =
                      [NoCall EXCEPT !.op = "acceptOffer", !.pc = "failed",
                         !.offerData = IF decoded.ok THEN decoded.v ELSE Undefined,
                         !.error = IF decoded.ok THEN "TypeError" ELSE decoded.error]]
                 /\ UNCHANGED << peer, connection >>
            ELSE /\ peer' = [peer EXCEPT ![t] =
                               [id |-> Get(decoded.v, K_peerId),
                                name |-> Get(decoded.v, K_peerName),
                                dataChannel |-> FALSE]]
                 /\ connection' = [connection EXCEPT ![t] = "open"]
                 /\ call' = [call EXCEPT ![t] =
                      [NoCall EXCEPT !.op = "acceptOffer", !.pc = "negotiating",
                                     !.offerData = decoded.v]]
         /\ nextT' = nextT + 1
  /\ UNCHANGED << cloudVars, callerVars, toSend, localPeerName, limit, peers, cc,
                  remoteDescription, readyState, buffered, wire, sf, peerEvents,
                  recvState, receiverVars >>

\* an acceptOffer that goes on to answer without the offer applied
ApplyNothing(descriptions, t, sdp) == descriptions

\* await connection.setRemoteDescription(offerData.sdp)
Apply(descriptions, t, sdp) == [descriptions EXCEPT ![t] = sdp]

\* The awaits on the descriptions are over: createOffer and setLocalDescription
\* in createOffer; setRemoteDescription, createAnswer and setLocalDescription
\* in acceptOffer.  They reject on a closed transport, and setRemoteDescription
\* rejects what is not an offer.
setLocalDescription(t) ==
  /\ call[t].pc = "negotiating"
  /\ LET sdp == IF call[t].op = "acceptOffer" THEN Get(call[t].offerData, K_sdp)
                ELSE Undefined
         accepted == /\ connection[t] = "open"
                     /\ call[t].op = "acceptOffer" => IsDescription(sdp, S_offer)
     IN  /\ call' = [call EXCEPT ![t] =
                       IF accepted THEN [@ EXCEPT !.pc = "gathering"]
                       ELSE [@ EXCEPT !.pc = "failed",
                                      !.error = IF connection[t] = "open"
                                                THEN "TypeError" ELSE "InvalidStateError"]]
         /\ remoteDescription' =
              IF accepted /\ call[t].op = "acceptOffer"
              THEN Apply(remoteDescription, t, sdp) ELSE remoteDescription
  /\ UNCHANGED << cloudVars, callerVars, toSend, localPeerName, limit, peers, peer,
                  nextT, cc, connection, readyState, buffered, wire, sf, peerEvents,
                  recvState, receiverVars >>

\* iceGatheringState has become complete on an open transport: the call
\* resumes, acceptOffer stores its peer in the registry, and the descriptor
\* is encoded and returned (btoa throws on a name it cannot encode).
icegatheringstatechange(t) ==
  /\ call[t].pc = "gathering"
  /\ connection[t] = "open"
  /\ LET data == IF call[t].op = "createOffer" THEN offerData(t) ELSE answerData(t)
         code == Encode(data)
     IN  call' = [call EXCEPT ![t] =
                    IF code.ok THEN [@ EXCEPT !.pc = "returned"]
                    ELSE [@ EXCEPT !.pc = "failed", !.error = code.error]]
  /\ peers' = IF call[t].op = "acceptOffer" THEN [peers EXCEPT ![peer[t].id] = t]
              ELSE peers
  /\ UNCHANGED << cloudVars, callerVars, toSend, localPeerName, limit, peer, nextT, cc,
                  connection, remoteDescription, readyState, buffered, wire, sf,
                  peerEvents, recvState, receiverVars >>

\* a lookup that takes the transport of the latest createOffer call
PendingLatestOffer ==
  LET offers == { t \in Transports : call[t].op = "createOffer" } IN
  IF offers = {} THEN 0 ELSE CHOOSE t \in offers : \A u \in offers : u <= t

\* this.peers.get(this.localPeerId)
Pending == peers[localPeerId]

\* completeConnection up to its await: the code is decoded, the pending entry
\* is looked up under the local id, and the answer is handed to the transport.
completeConnection(c, answerCode) ==
  /\ c <= limit.completes
  /\ cc[c].pc = "idle"
  /\ \A r \in Completes : r < c => cc[r].pc # "idle"
  /\ LET decoded == Decoded[answerCode]
         failure == IF ~decoded.ok THEN decoded.error
                    ELSE IF Pending = 0
                    THEN "No pending connection found. Create an offer first."
                    ELSE IF ~IsObj(decoded.v) THEN "TypeError"
                    ELSE Null
     IN  cc' = [cc EXCEPT ![c] =
                  IF failure # Null
                  THEN [@ EXCEPT !.pc = "failed", !.error = failure, !.after = nextT - 1]
                  ELSE [@ EXCEPT !.pc = "applying", !.t = Pending,
                                 !.answerData = decoded.v, !.after = nextT - 1]]
  /\ UNCHANGED << cloudVars, callerVars, toSend, localPeerName, limit, peers, peer,
                  nextT, call, connection, remoteDescription, readyState, buffered,
                  wire, sf, peerEvents, recvState, receiverVars >>

\* what the transport answers to setRemoteDescription(answerData.sdp): it
\* takes an answer while its own offer is set and no answer has been applied
AnswerAccepted(t, sdp) ==
  /\ connection[t] = "open"
  /\ call[t].op = "createOffer"
  /\ call[t].pc # "negotiating"
  /\ remoteDescription[t] = Undefined
  /\ IsDescription(sdp, S_answer)

\* a promotion that leaves the entry under the local id in place
PromoteKeepPlaceholder(registry, t, remotePeerId) ==
  [registry EXCEPT ![remotePeerId] = t]

\* this.peers.delete(this.localPeerId); this.peers.set(remotePeerId, peer)
Promote(registry, t, remotePeerId) ==
  [[registry EXCEPT ![localPeerId] = 0] EXCEPT ![remotePeerId] = t]

\* a catch block that drops the pending entry
CatchDropsPending(registry) == [registry EXCEPT ![localPeerId] = 0]

\* catch (error) { console.error(...); throw error }: the registry as it is
Catch(registry) == registry

\* The await of completeConnection is over.  When the transport has taken the
\* answer, the peer object gets the id and name of the answer and its
\* registry entry moves from the local id to that id; else the call throws.
setRemoteDescription(c) ==
  /\ cc[c].pc = "applying"
  /\ LET t == cc[c].t
         sdp == Get(cc[c].answerData, K_sdp)
         remotePeerId == Get(cc[c].answerData, K_peerId)
         remotePeerName == Get(cc[c].answerData, K_peerName)
     IN  IF AnswerAccepted(t, sdp)
         THEN /\ remoteDescription' = [remoteDescription EXCEPT ![t] = sdp]
              /\ peer' = [peer EXCEPT ![t].id = remotePeerId, ![t].name = remotePeerName]
              /\ peers' = Promote(peers, t, remotePeerId)
              /\ cc' = [cc EXCEPT ![c].pc = "done"]
         ELSE /\ cc' = [cc EXCEPT ![c].pc = "failed",
                                  ![c].error = IF connection[t] = "open"
                                                  /\ ~IsDescription(sdp, S_answer)
                                               THEN "OperationError"
                                               ELSE "InvalidStateError"]
              /\ peers' = Catch(peers)
              /\ UNCHANGED << remoteDescription, peer >>
  /\ UNCHANGED << cloudVars, callerVars, toSend, localPeerName, limit, nextT, call,
                  connection, readyState, buffered, wire, sf, peerEvents, recvState,
                  receiverVars >>

\* channel.onopen on the initiator: the channel opens once the answer the peer
\* made to the offer of this transport has been applied to it.
onopen(t) ==
  /\ readyState[t] = "connecting"
  /\ connection[t] = "open"
  /\ remoteDescription[t] = Description(S_answer, SdpText(AnswerMark(t)))
  /\ readyState' = [readyState EXCEPT ![t] = "open"]
  /\ recvState' = [recvState EXCEPT ![t] = "open"]
  /\ peerEvents' = Emit(peerEvents, [type |-> "PeerConnected", id |-> peer[t].id])
  /\ UNCHANGED << cloudVars, callerVars, toSend, peers, peer, nextT, connection,
                  callVars, buffered, wire, sf, receiverVars >>

\* connection.ondatachannel on the responder, and the open event announced in
\* the same task: the channel of the peer arrives once the peer has applied
\* the answer that acceptOffer returned.
ondatachannel(t) ==
  /\ call[t].op = "acceptOffer"
  /\ call[t].pc = "returned"
  /\ ~peer[t].dataChannel
  /\ connection[t] = "open"
  /\ peer' = [peer EXCEPT ![t].dataChannel = TRUE]
  /\ readyState' = [readyState EXCEPT ![t] = "open"]
  /\ recvState' = [recvState EXCEPT ![t] = "open"]
  /\ peerEvents' = Emit(peerEvents, [type |-> "PeerConnected", id |-> peer[t].id])
  /\ UNCHANGED << cloudVars, callerVars, toSend, peers, nextT, connection, callVars,
                  buffered, wire, sf, receiverVars >>

\* The local channel starts closing: the remote end closed it or the network
\* path was lost.  A transport that has no remote description has no path.
Closing(t) ==
  /\ readyState[t] \in {"connecting", "open"}
  /\ remoteDescription[t] # Undefined
  /\ readyState' = [readyState EXCEPT ![t] = "closing"]
  /\ UNCHANGED << engineVars, buffered, wire, sf, recvState, receiverVars >>

\* a close handler that leaves the registry as it is
DeleteNothing(registry, id) == registry

\* this.peers.delete(peer.id)
Delete(registry, id) == [registry EXCEPT ![id] = 0]

\* channel.onclose of the engine
onclose(t) ==
  /\ readyState[t] = "closing"
  /\ readyState' = [readyState EXCEPT ![t] = "closed"]
  /\ peers' = Delete(peers, peer[t].id)
  /\ peerEvents' = Emit(peerEvents, [type |-> "PeerDisconnected", id |-> peer[t].id])
  /\ UNCHANGED << cloudVars, callerVars, toSend, peer, nextT, connection, callVars,
                  buffered, wire, sf, recvState, receiverVars >>

CloseNothing(transport, held) == transport

\* peer.connection?.close() for every transport the registry holds
Close(transport, held) ==
  [t \in Transports |-> IF t \in held THEN "closed" ELSE transport[t]]

\* disconnect(): close the channel and the transport of every registry entry,
\* then clear the registry.
disconnect ==
  /\ \E p \in Keys : peers[p] # 0
  /\ LET held == { peers[p] : p \in { q \in Keys : peers[q] # 0 } } IN
       /\ readyState' = [t \in Transports |->
                          IF t \in held /\ peer[t].dataChannel
                             /\ readyState[t] \in {"connecting", "open"}
                          THEN "closing" ELSE readyState[t]]
       /\ connection' = Close(connection, held)
  /\ peers' = [p \in Keys |-> 0]
  /\ UNCHANGED << cloudVars, callerVars, toSend, peer, nextT, callVars, buffered, wire,
                  sf, peerEvents, recvState, receiverVars >>

\* -------------------------------------------------------------- sendFile
\* The channel sendFile resolves for peerId: "absent" when the registry has
\* no entry, "nochannel" when the entry has no dataChannel, else readyState.
Resolve(peerId) ==
  IF peers[peerId] = 0 THEN "absent"
  ELSE IF ~peer[peers[peerId]].dataChannel THEN "nochannel"
  ELSE readyState[peers[peerId]]

\* a check that looks for the channel and not at its readyState
ConnectedAnyState(peerId) == Resolve(peerId) \notin {"absent", "nochannel"}

\* peer?.dataChannel present and readyState === 'open'
Connected(peerId) == Resolve(peerId) = "open"

\* channel.send(data): the frame joins the channel's outgoing buffer
ChannelSend(t, fr) == buffered' = [buffered EXCEPT ![t] = Append(@, fr)]

\* record of one channel.send call: the frame, and whether bufferedAmount
\* exceeded the high-water mark at the call
SendRecord(t, fr) == [frame |-> fr, full |-> bufferedAmount(t) > HighWaterMark]

\* sendFile(peerId, file) up to its first suspension: the connectivity check,
\* the metadata frame and the slice of the first chunk.
sendFile(s, peerId, file) ==
  /\ sf[s].pc = "idle"
  /\ \A r \in Sends : r < s => sf[r].pc # "idle"
  /\ IF ~Connected(peerId)
     THEN /\ sf' = [sf EXCEPT ![s] = [@ EXCEPT !.pc = "failed", !.peerId = peerId,
                       !.found = Resolve(peerId),
                       !.error = "Peer not connected"]]
          /\ UNCHANGED buffered
     ELSE LET t == peers[peerId]
              fr == TextFrame(s, file)
          IN  /\ ChannelSend(t, fr)
              /\ sf' = [sf EXCEPT ![s] = [@ EXCEPT
                          !.pc = IF 0 < file.size THEN "read" ELSE "done",
                          !.peerId = peerId, !.file = file, !.chan = t,
                          !.found = Resolve(peerId), !.offset = 0,
                          !.sent = << SendRecord(t, fr) >>]]

\* a sendFile call made with the file chosen for it
sendFileStart(s, peerId) ==
  /\ sendFile(s, peerId, toSend[s])
  /\ UNCHANGED << engineVars, readyState, wire, recvState, receiverVars >>

\* a report of the offset as it is
ProgressUnclamped(offset, size) == offset

\* progress: Math.min(offset, file.size)
Progress(offset, size) == Min(offset, size)

\* chunk.arrayBuffer() has resolved: poll if the buffer is full, else send the
\* chunk, advance offset, report progress, and slice the next chunk or return.
sendFileChunk(s) ==
  /\ sf[s].pc \in {"read", "wait"}
  /\ LET t == sf[s].chan
         file == sf[s].file
         fr == Slice(s, file, sf[s].offset)
         next == sf[s].offset + chunkSize
     IN  IF bufferedAmount(t) > HighWaterMark
         THEN /\ sf[s].pc = "read"
              /\ sf' = [sf EXCEPT ![s].pc = "wait"]
              /\ UNCHANGED buffered
         ELSE IF readyState[t] # "open"
         THEN /\ sf' = [sf EXCEPT ![s].pc = "failed", ![s].error = "InvalidStateError"]
              /\ UNCHANGED buffered
         ELSE /\ ChannelSend(t, fr)
              /\ sf' = [sf EXCEPT ![s] = [@ EXCEPT
                          !.pc = IF next < file.size THEN "read" ELSE "done",
                          !.offset = next,
                          !.sent = Append(@, SendRecord(t, fr)),
                          !.progress = Append(@, Progress(next, file.size))]]
  /\ UNCHANGED << engineVars, readyState, wire, recvState, receiverVars >>

\* ------------------------------------------------------------- component
\* connectedPeers of the component: onPeerConnected appends the peer,
\* onPeerDisconnected filters its id out.  One Send button per peer.
RECURSIVE connectedPeers(_)
connectedPeers(events) ==
  IF events = << >> THEN {}
  ELSE LET prev == connectedPeers(SubSeq(events, 1, Len(events) - 1))
           e == events[Len(events)]
       IN  IF e.type = "PeerConnected" THEN prev \cup {e.id} ELSE prev \ {e.id}

\* what the user selects in the file dialog
Selections ==
  { << f >> : f \in Files } \cup { << f, g >> : f, g \in Files }

\* handleFileSelect / handleFolderSelect: setSelectedFiles(Array.from(files))
handleFileSelect(files) ==
  /\ selectedFiles = << >>
  /\ selectedFiles' = files
  /\ UNCHANGED << cloudVars, sendFilesCalls, toSend, peers, peer, nextT, connection,
                  peerEvents, callVars, readyState, buffered, wire, sf, recvState,
                  receiverVars >>

\* the sendFile call number a sendFiles call takes next
NextSend ==
  CHOOSE s \in Sends : sf[s].pc = "idle" /\ \A r \in Sends : r < s => sf[r].pc # "idle"

\* a loop that goes on to the next file whatever became of the last
ContinuesAlways(outcome) == TRUE

\* await sendFile(...) inside try: the loop goes on when the call returned
Continues(outcome) == outcome = "done"

\* one iteration of the for loop up to its await: sendFile(peerId, files[k])
Iterate(b, peerId, files, k) ==
  /\ \E s \in Sends : sf[s].pc = "idle"
  /\ LET s == NextSend IN
       /\ sendFile(s, peerId, files[k])
       /\ toSend' = [toSend EXCEPT ![s] = files[k]]
       /\ sendFilesCalls' = [sendFilesCalls EXCEPT ![b] =
                               [pc |-> "sending", peerId |-> peerId, files |-> files,
                                sends |-> Append(sendFilesCalls[b].sends, s)]]

\* a press of the Send button of a connected peer: sendFiles(peerId) up to its
\* first await
sendFiles(b, peerId) ==
  /\ sendFilesCalls[b].pc = "idle"
  /\ \A a \in Presses : a < b => sendFilesCalls[a].pc # "idle"
  /\ peerId \in connectedPeers(peerEvents)
  /\ IF selectedFiles = << >>
     THEN /\ sendFilesCalls' = [sendFilesCalls EXCEPT ![b].pc = "returned"]
          /\ UNCHANGED << toSend, sf, buffered >>
     ELSE Iterate(b, peerId, selectedFiles, 1)
  /\ UNCHANGED << cloudVars, selectedFiles, peers, peer, nextT, connection, peerEvents,
                  callVars, readyState, wire, recvState, receiverVars >>

\* the awaited sendFile has settled: the next iteration, the end of the loop
\* (toast, setSelectedFiles([])), or the catch block
sendFilesResume(b) ==
  /\ sendFilesCalls[b].pc = "sending"
  /\ LET call_ == sendFilesCalls[b]
         k == Len(call_.sends)
         outcome == sf[call_.sends[k]].pc
     IN  /\ outcome \in {"done", "failed"}
         /\ IF ~Continues(outcome)
            THEN /\ sendFilesCalls' = [sendFilesCalls EXCEPT ![b].pc = "failed"]
                 /\ UNCHANGED << selectedFiles, toSend, sf, buffered >>
            ELSE IF k < Len(call_.files)
            THEN /\ Iterate(b, call_.peerId, call_.files, k + 1)
                 /\ UNCHANGED selectedFiles
            ELSE /\ sendFilesCalls' = [sendFilesCalls EXCEPT ![b].pc = "sent"]
                 /\ selectedFiles' = << >>
                 /\ UNCHANGED << toSend, sf, buffered >>
  /\ UNCHANGED << cloudVars, peers, peer, nextT, connection, peerEvents, callVars,
                  readyState, wire, recvState, receiverVars >>

\* ------------------------------------------------------------- transport
\* The transport takes the oldest buffered frame off the outgoing buffer and
\* puts it on the wire, in order.
Transmit(t) ==
  /\ readyState[t] = "open"
  /\ buffered[t] # << >>
  /\ buffered' = [buffered EXCEPT ![t] = Tail(@)]
  /\ wire' = [wire EXCEPT ![t] =
               IF recvState[t] = "open" THEN Append(@, Head(buffered[t])) ELSE @]
  /\ UNCHANGED << engineVars, readyState, sf, recvState, receiverVars >>

\* ------------------------------------------------------------ remote end
\* Variants of the message handler: completion on > instead of >=, metadata
\* kept after completion, buffers kept across a metadata frame, buffers kept
\* across a metadata frame when no transfer was active.
HandlerVariant(meta, chunks, fr, strict, keepMeta, merge, keepOrphans) ==
  IF fr.kind = "text"
  THEN [meta |-> Parse(fr.data),
        chunks |-> IF merge \/ (keepOrphans /\ meta = NoFile) THEN chunks ELSE << >>,
        events |-> << >>]
  ELSE LET pushed == Append(chunks, fr)
           total == SumBytes(pushed)
           progress == IF meta # NoFile
                       THEN << [type |-> "TransferProgress", filename |-> meta.name,
                                progress |-> total, total |-> meta.size] >>
                       ELSE << >>
           complete == IF strict THEN total > meta.size ELSE total >= meta.size
       IN  IF meta # NoFile /\ complete
           THEN [meta |-> IF keepMeta THEN meta ELSE NoFile, chunks |-> << >>,
                 events |-> progress \o
                   << [type |-> "FileReceived", name |-> meta.name, mime |-> meta.type,
                       bytes |-> Blob(pushed), size |-> total,
                       fromPeer |-> localPeerName] >>]
           ELSE [meta |-> meta, chunks |-> pushed, events |-> progress]

ReassembleStrict(meta, chunks, fr) ==
  HandlerVariant(meta, chunks, fr, TRUE, FALSE, FALSE, FALSE)

ReassembleKeepMetadata(meta, chunks, fr) ==
  HandlerVariant(meta, chunks, fr, FALSE, TRUE, FALSE, FALSE)

ReassembleMerge(meta, chunks, fr) ==
  HandlerVariant(meta, chunks, fr, FALSE, FALSE, TRUE, FALSE)

ReassembleKeepOrphans(meta, chunks, fr) ==
  HandlerVariant(meta, chunks, fr, FALSE, FALSE, FALSE, TRUE)

\* fileMetadata and receivedChunks after channel.onmessage has handled fr
Reassemble(meta, chunks, fr) ==
  IF fr.kind = "text"
  THEN [meta |-> Parse(fr.data), chunks |-> << >>, events |-> << >>]
  ELSE LET pushed == Append(chunks, fr)
           total == SumBytes(pushed)
           progress == IF meta # NoFile
                       THEN << [type |-> "TransferProgress", filename |-> meta.name,
                                progress |-> total, total |-> meta.size] >>
                       ELSE << >>
       IN  IF meta # NoFile /\ total >= meta.size
           THEN [meta |-> NoFile, chunks |-> << >>,
                 events |-> progress \o
                   << [type |-> "FileReceived", name |-> meta.name, mime |-> meta.type,
                       bytes |-> Blob(pushed), size |-> total,
                       fromPeer |-> localPeerName] >>]
           ELSE [meta |-> meta, chunks |-> pushed, events |-> progress]

\* callbacks as recorded: each with the number of message events handled on
\* the channel when it was made
Stamp(events, n) == [i \in 1..Len(events) |-> [at |-> n, event |-> events[i]]]

\* a message handler whose reassembly state is one for all channels
onmessageShared(t) ==
  /\ recvState[t] = "open"
  /\ wire[t] # << >>
  /\ LET fr == Head(wire[t])
         r == Reassemble(fileMetadata[t], receivedChunks[t], fr)
     IN  /\ fileMetadata' = [u \in DOMAIN fileMetadata |-> r.meta]
         /\ receivedChunks' = [u \in DOMAIN receivedChunks |-> r.chunks]
         /\ received' = [received EXCEPT ![t] = @ \o Stamp(r.events, Len(recvLog[t]) + 1)]
         /\ recvLog' = [recvLog EXCEPT ![t] = Append(@, fr)]
  /\ wire' = [wire EXCEPT ![t] = Tail(@)]
  /\ UNCHANGED << engineVars, readyState, buffered, sf, recvState >>

\* channel.onmessage at the remote end: the next frame of the ordered channel
onmessage(t) ==
  /\ recvState[t] = "open"
  /\ wire[t] # << >>
  /\ LET fr == Head(wire[t])
         r == Reassemble(fileMetadata[t], receivedChunks[t], fr)
     IN  /\ fileMetadata' = [fileMetadata EXCEPT ![t] = r.meta]
         /\ receivedChunks' = [receivedChunks EXCEPT ![t] = r.chunks]
         /\ received' = [received EXCEPT ![t] = @ \o Stamp(r.events, Len(recvLog[t]) + 1)]
         /\ recvLog' = [recvLog EXCEPT ![t] = Append(@, fr)]
  /\ wire' = [wire EXCEPT ![t] = Tail(@)]
  /\ UNCHANGED << engineVars, readyState, buffered, sf, recvState >>

\* a close handler that hands over what has been received so far
CloseReceiverFlush(meta, chunks) ==
  IF meta = NoFile THEN [meta |-> meta, chunks |-> chunks, events |-> << >>]
  ELSE [meta |-> NoFile, chunks |-> << >>,
        events |-> << [type |-> "FileReceived", name |-> meta.name, mime |-> meta.type,
                       bytes |-> Blob(chunks), size |-> SumBytes(chunks),
                       fromPeer |-> localPeerName] >>]

\* what channel.onclose leaves of the closure's state and of the events
CloseReceiver(meta, chunks) == [meta |-> meta, chunks |-> chunks, events |-> << >>]

\* channel.onclose at the remote end (remote close, network loss, or the close
\* started by disconnect()): no message is delivered afterwards.
oncloseRemote(t) ==
  /\ recvState[t] = "open"
  /\ recvState' = [recvState EXCEPT ![t] = "closed"]
  /\ wire' = [wire EXCEPT ![t] = << >>]
  /\ LET r == CloseReceiver(fileMetadata[t], receivedChunks[t])
     IN  /\ fileMetadata' = [fileMetadata EXCEPT ![t] = r.meta]
         /\ receivedChunks' = [receivedChunks EXCEPT ![t] = r.chunks]
         /\ received' = [received EXCEPT ![t] = @ \o Stamp(r.events, Len(recvLog[t]))]
  /\ UNCHANGED << engineVars, readyState, buffered, sf, recvLog >>

Next ==
  \/ createOffer
  \/ \E code \in WellFormedOffers : acceptOffer(code)
  \/ \E t \in Transports : setLocalDescription(t)
  \/ \E t \in Transports : icegatheringstatechange(t)
  \/ \E c \in Completes : \E code \in Answers : completeConnection(c, code)
  \/ \E c \in Completes : setRemoteDescription(c)
  \/ \E t \in Transports : onopen(t)
  \/ \E t \in Transports : ondatachannel(t)
  \/ \E t \in Transports : Closing(t)
  \/ \E t \in Transports : onclose(t)
  \/ disconnect
  \/ \E s \in Sends, p \in PeerIds : sendFileStart(s, p)
  \/ \E s \in Sends : sendFileChunk(s)
  \/ \E t \in Transports : Transmit(t)
  \/ \E t \in Transports : onmessage(t)
  \/ \E t \in Transports : oncloseRemote(t)

Spec == Init /\ [][Next]_vars

BackpressureSpec == BackpressureInit /\ [][Next]_vars

\* ----------------------------------------------------------- cancellation
\* The engine that offers, sends, and is disconnected or loses its channel
\* while it sends.  The timers and reads sendFile awaits do fire, and an open
\* channel does transmit what it has buffered.
CancelNext ==
  \/ createOffer
  \/ \E t \in Transports : setLocalDescription(t)
  \/ \E t \in Transports : icegatheringstatechange(t)
  \/ \E c \in Completes : \E code \in Answers : completeConnection(c, code)
  \/ \E c \in Completes : setRemoteDescription(c)
  \/ \E t \in Transports : onopen(t)
  \/ \E t \in Transports : Closing(t)
  \/ \E t \in Transports : onclose(t)
  \/ disconnect
  \/ \E s \in Sends, p \in PeerIds : sendFileStart(s, p)
  \/ \E s \in Sends : sendFileChunk(s)
  \/ \E t \in Transports : Transmit(t)

CancelSpec ==
  /\ BackpressureInit /\ [][CancelNext]_vars
  /\ WF_vars(\E s \in Sends : sendFileChunk(s))
  /\ WF_vars(\E t \in Transports : Transmit(t))

\* ------------------------------------------------------------ send button
\* The component: the user selects files and presses Send buttons of connected
\* peers, while channels close and the engine is disconnected.
SendFilesInit ==
  /\ toSend = [s \in Sends |-> NoFile]
  /\ OnePeer
  /\ Fresh

SendFilesNext ==
  \/ createOffer
  \/ \E t \in Transports : setLocalDescription(t)
  \/ \E t \in Transports : icegatheringstatechange(t)
  \/ \E c \in Completes : \E code \in Answers : completeConnection(c, code)
  \/ \E c \in Completes : setRemoteDescription(c)
  \/ \E t \in Transports : onopen(t)
  \/ \E t \in Transports : Closing(t)
  \/ \E t \in Transports : onclose(t)
  \/ disconnect
  \/ \E files \in Selections : handleFileSelect(files)
  \/ \E b \in Presses, p \in PeerIds : sendFiles(b, p)
  \/ \E b \in Presses : sendFilesResume(b)
  \/ \E s \in Sends : sendFileChunk(s)
  \/ \E t \in Transports : Transmit(t)

SendFilesSpec == SendFilesInit /\ [][SendFilesNext]_vars

\* ----------------------------------------------------------- cloud upload
\* FileUpload.tsx.  Every action is one resumption of uploadFile: from the
\* settling of the request it awaits to the next request it issues.
engineRest == << offlineVars, screenVars, callerVars, toSend, peers, peer, nextT,
                 connection, peerEvents, callVars, readyState, buffered, wire, sf,
                 recvState, receiverVars >>

\* Math.round((completedChunks / totalChunks) * 100)
percentage(completedChunks, totalChunks) ==
  (200 * completedChunks + totalChunks) \div (2 * totalChunks)

\* updateProgress(updates): every entry of uploads with the file's name
updateProgress(list, file, updates) ==
  [k \in 1..Len(list) |->
     IF list[k].fileName = file.name
     THEN [f \in DOMAIN list[k] |-> IF f \in DOMAIN updates THEN updates[f] ELSE list[k][f]]
     ELSE list[k]]

\* supabase.storage.from('file-chunks').upload(chunkPath, chunk) is issued
Attempt(c) == [c EXCEPT !.pc = "uploading", !.attempts = Append(@, c.i)]

\* the outer catch block: status 'failed', the error message, toast.error
Failed(c, message) ==
  [c EXCEPT !.pc = "failed", !.error = message, !.toasts = Append(@, "error")]

\* a loop that ends after its first chunk
MoreNever(i, n) == FALSE

\* for (let i = 0; i < chunks.length; i++)
More(i, n) == i < n

\* uploadFile(file) up to its first await: the entry in uploads, and the
\* insert into shared_files
uploadFile(u, file) ==
  /\ uploadCalls[u].pc = "idle"
  /\ \A v \in Uploads : v < u => uploadCalls[v].pc # "idle"
  /\ LET chunks == splitFileIntoChunks(file) IN
       /\ uploadCalls' = [uploadCalls EXCEPT ![u] =
             [IdleUpload EXCEPT !.pc = "creating", !.file = file, !.chunks = chunks]]
       /\ uploads' = Append(uploads,
             [fileName |-> file.name, totalChunks |-> Len(chunks), completedChunks |-> 0,
              percentage |-> 0, status |-> "uploading", error |-> Null])
  /\ UNCHANGED << storage, file_chunks, shared_files, engineRest >>

\* the insert into shared_files has settled: with an error the call fails,
\* else the loop starts on chunk 0, or ends at once for a file of no chunk
insertSharedFile(u, fileError) ==
  LET c == uploadCalls[u] IN
  /\ c.pc = "creating"
  /\ IF fileError
     THEN /\ uploadCalls' = [uploadCalls EXCEPT ![u] = Failed(c, "Failed to create file record")]
          /\ uploads' = updateProgress(uploads, c.file,
                           [status |-> "failed", error |-> "Failed to create file record"])
          /\ UNCHANGED shared_files
     ELSE /\ shared_files' = [shared_files EXCEPT ![u] =
                 [total_chunks |-> Len(c.chunks), upload_status |-> "uploading"]]
          /\ uploadCalls' = [uploadCalls EXCEPT ![u] =
                 IF More(0, Len(c.chunks))
                 THEN Attempt([c EXCEPT !.id = u, !.i = 0, !.retries = retries])
                 ELSE [c EXCEPT !.id = u, !.pc = "finalizing"]]
          /\ UNCHANGED uploads
  /\ UNCHANGED << storage, file_chunks, engineRest >>

\* a catch block that always tries again
RetryAlways(left) == TRUE

\* if (retries > 0)
Retry(left) == left > 0

\* the catch block of one attempt: retries--, then the 2 s timer or the throw
\* that ends the upload
AttemptFailed(u, message) ==
  LET c == uploadCalls[u] IN
    IF Retry(c.retries - 1)
    THEN /\ uploadCalls' = [uploadCalls EXCEPT ![u] =
               [c EXCEPT !.pc = "waiting", !.retries = c.retries - 1,
                         !.waits = Append(@, RetryDelay)]]
         /\ UNCHANGED uploads
    ELSE /\ uploadCalls' = [uploadCalls EXCEPT ![u] =
               Failed([c EXCEPT !.retries = c.retries - 1], message)]
         /\ uploads' = updateProgress(uploads, c.file,
                          [status |-> "failed", error |-> message])

\* Promise.race([uploadPromise, timeoutPromise]) has settled: the upload
\* stored the object, returned an error (always when the path exists: no
\* upsert), or the 60 s timer won and the request is left in flight
raceSettles(u, outcome) ==
  LET c == uploadCalls[u]
      path == chunkPath(c.id, c.i)
  IN  /\ c.pc = "uploading"
      /\ storage[path] = "stored" => outcome # "stored"
      /\ IF outcome = "stored"
         THEN /\ storage' = [storage EXCEPT ![path] = "stored"]
              /\ uploadCalls' = [uploadCalls EXCEPT ![u].pc = "recording"]
              /\ UNCHANGED uploads
         ELSE /\ storage' = [storage EXCEPT ![path] =
                     IF outcome = "timeout" /\ @ = "absent" THEN "inflight" ELSE @]
              /\ AttemptFailed(u, IF outcome = "timeout" THEN "Upload timeout"
                                   ELSE "Storage upload failed")
      /\ UNCHANGED << file_chunks, shared_files, engineRest >>

\* an upload request that lost the race ends: the object is stored, or not
uploadLands(path, stored) ==
  /\ storage[path] = "inflight"
  /\ storage' = [storage EXCEPT ![path] = IF stored THEN "stored" ELSE "absent"]
  /\ UNCHANGED << uploadCalls, uploads, file_chunks, shared_files, engineRest >>

\* the insert into file_chunks has settled: with an error the attempt has
\* failed; else the chunk is done, progress is updated, and the loop goes on
\* to the next chunk or to the update of shared_files
insertChunk(u, chunkError) ==
  LET c == uploadCalls[u] IN
  /\ c.pc = "recording"
  /\ IF chunkError
     THEN /\ AttemptFailed(u, "Database record failed")
          /\ UNCHANGED file_chunks
     ELSE /\ file_chunks' = file_chunks \cup
                 { [file_id |-> c.id, chunk_number |-> c.i, chunk_size |-> c.chunks[c.i + 1],
                    storage_path |-> chunkPath(c.id, c.i), upload_status |-> "completed"] }
          /\ uploads' = updateProgress(uploads, c.file,
                 [completedChunks |-> c.i + 1,
                  percentage |-> percentage(c.i + 1, Len(c.chunks))])
          /\ uploadCalls' = [uploadCalls EXCEPT ![u] =
                 IF More(c.i + 1, Len(c.chunks))
                 THEN Attempt([c EXCEPT !.i = c.i + 1, !.retries = retries])
                 ELSE [c EXCEPT !.i = c.i + 1, !.pc = "finalizing"]]
  /\ UNCHANGED << storage, shared_files, engineRest >>

\* the 2 s timer has fired: the next attempt of the same chunk
retryTimer(u) ==
  /\ uploadCalls[u].pc = "waiting"
  /\ uploadCalls' = [uploadCalls EXCEPT ![u] = Attempt(@)]
  /\ UNCHANGED << uploads, storage, file_chunks, shared_files, engineRest >>

\* the update of shared_files has settled
updateSharedFile(u, updateError) ==
  LET c == uploadCalls[u] IN
  /\ c.pc = "finalizing"
  /\ shared_files' = IF updateError THEN shared_files
                     ELSE [shared_files EXCEPT ![c.id].upload_status = "completed"]
  /\ IF updateError
     THEN /\ uploadCalls' = [uploadCalls EXCEPT ![u] = Failed(c, "Failed to finalize upload")]
          /\ uploads' = updateProgress(uploads, c.file,
                           [status |-> "failed", error |-> "Failed to finalize upload"])
     ELSE /\ uploadCalls' = [uploadCalls EXCEPT ![u] =
                 [c EXCEPT !.pc = "completed", !.toasts = Append(@, "success")]]
          /\ uploads' = updateProgress(uploads, c.file, [status |-> "completed"])
  /\ UNCHANGED << storage, file_chunks, engineRest >>

UploadInit ==
  /\ toSend = [s \in Sends |-> NoFile]
  /\ OnePeer
  /\ Fresh

UploadNext ==
  \/ \E u \in Uploads, file \in UploadFiles : uploadFile(u, file)
  \/ \E u \in Uploads, fileError \in BOOLEAN : insertSharedFile(u, fileError)
  \/ \E u \in Uploads, outcome \in {"stored", "error", "timeout"} : raceSettles(u, outcome)
  \/ \E path \in Paths, stored \in BOOLEAN : uploadLands(path, stored)
  \/ \E u \in Uploads, chunkError \in BOOLEAN : insertChunk(u, chunkError)
  \/ \E u \in Uploads : retryTimer(u)
  \/ \E u \in Uploads, updateError \in BOOLEAN : updateSharedFile(u, updateError)

UploadSpec == UploadInit /\ [][UploadNext]_vars

\* ------------------------------------------- the handler under any traffic
\* What a peer may put on a channel: a metadata text for any file, or a
\* binary message of one of two lengths.  The n-th message of a channel
\* carries bytes of its own, (n, 0) .. (n, length - 1).
ChunkLengths == {100, chunkSize}

AnyFrame(n) ==
  { [kind |-> "text", sid |-> n, data |-> Stringify(f)] : f \in Files }
  \cup { BinFrame(n, 0, len) : len \in ChunkLengths }

\* messages that have reached the remote ends so far
RECURSIVE Arrived(_)
Arrived(T) ==
  IF T = {} THEN 0
  ELSE LET t == CHOOSE x \in T : TRUE
       IN  Len(recvLog[t]) + Len(wire[t]) + Arrived(T \ {t})

\* the next message of the peer reaches the open channel
Arrive(t, fr) ==
  /\ recvState[t] = "open"
  /\ wire[t] = << >>
  /\ Arrived(Transports) < MaxFrames
  /\ wire' = [wire EXCEPT ![t] = Append(@, fr)]
  /\ UNCHANGED << engineVars, readyState, buffered, sf, recvState, receiverVars >>

ReceiverInit ==
  /\ toSend = [s \in Sends |-> SmallFile]
  /\ OnePeer
  /\ Fresh

ReceiverNext ==
  \/ \E code \in WellFormedOffers : acceptOffer(code)
  \/ \E t \in Transports : setLocalDescription(t)
  \/ \E t \in Transports : icegatheringstatechange(t)
  \/ \E t \in Transports : ondatachannel(t)
  \/ \E t \in Transports : \E fr \in AnyFrame(Len(recvLog[t]) + 1) : Arrive(t, fr)
  \/ \E t \in Transports : onmessage(t)
  \/ \E t \in Transports : oncloseRemote(t)

ReceiverSpec == ReceiverInit /\ [][ReceiverNext]_vars

\* ------------------------------------------------------------- signaling
\* The engine of Ana, who makes offers, accepts offers, pastes answers, and
\* disconnects, and sends no file.
SignalingInit ==
  /\ toSend = [s \in Sends |-> SmallFile]
  /\ localPeerName = Ana
  /\ limit = [transports |-> MaxNegotiations, completes |-> MaxCompletes]
  /\ Fresh

SignalingNext ==
  \/ createOffer
  \/ \E code \in WellFormedOffers : acceptOffer(code)
  \/ \E t \in Transports : setLocalDescription(t)
  \/ \E t \in Transports : icegatheringstatechange(t)
  \/ \E c \in Completes : \E code \in Answers \cup StaleAnswers \cup RejectedAnswers :
         completeConnection(c, code)
  \/ \E c \in Completes : setRemoteDescription(c)
  \/ \E t \in Transports : onopen(t)
  \/ \E t \in Transports : ondatachannel(t)
  \/ \E t \in Transports : Closing(t)
  \/ \E t \in Transports : onclose(t)
  \/ disconnect

SignalingSpec == SignalingInit /\ [][SignalingNext]_vars

\* ----------------------------------------------------------- descriptors
\* The engine of a user of any name, who makes offers and pastes codes of
\* every kind as offers.
DescriptorInit ==
  /\ toSend = [s \in Sends |-> SmallFile]
  /\ localPeerName \in LocalNames
  /\ limit = [transports |-> MaxNegotiations, completes |-> 0]
  /\ Fresh

DescriptorNext ==
  \/ createOffer
  \/ \E code \in WellFormedOffers \cup MalformedOffers : acceptOffer(code)
  \/ \E t \in Transports : setLocalDescription(t)
  \/ \E t \in Transports : icegatheringstatechange(t)
  \/ \E t \in Transports : ondatachannel(t)

DescriptorSpec == DescriptorInit /\ [][DescriptorNext]_vars

\* The same engine under the scheduling the platform guarantees: a promise
\* of setLocalDescription or setRemoteDescription settles, and a channel
\* that has arrived is announced.  Nothing makes ICE gathering complete.
NegotiationSpec ==
  /\ DescriptorInit
  /\ [][DescriptorNext]_vars
  /\ WF_vars(\E t \in Transports : setLocalDescription(t))
  /\ WF_vars(\E t \in Transports : ondatachannel(t))

\* ------------------------------------------------------ reading the logs
Frames(s) == [i \in 1..Len(sf[s].sent) |-> sf[s].sent[i].frame]

Started(s) == sf[s].sent # << >>

\* s is the only sendFile call that has put frames on its channel
Alone(s) == \A r \in Sends \ {s} : ~Started(r) \/ sf[r].chan # sf[s].chan

\* every frame of call s has been delivered to the remote end of its channel,
\* and nothing else has
AllDelivered(s) == sf[s].pc = "done" /\ recvLog[sf[s].chan] = Frames(s)

FileEvents(t) ==
  { k \in DOMAIN received[t] : received[t][k].event.type = "FileReceived" }

\* the file as the s-th sendFile call's caller knows it, in the shape of a
\* FileReceived event
Delivered(s, e) ==
  /\ e.name = toSend[s].name
  /\ e.mime = toSend[s].type
  /\ e.size = toSend[s].size
  /\ e.bytes = FileBytes(s, toSend[s])

\* ---------------------------------------------------------------- C1
\* C1 (as claimed): for every file size, once a single sendFile call has
\* returned and all its frames have been delivered over the ordered channel
\* with no other traffic, the receiver has emitted FileReceived with a file
\* of the same length, bytes, name and MIME type.
C1_EveryFileDelivered ==
  \A s \in Sends :
    (Alone(s) /\ AllDelivered(s)) =>
      \E k \in FileEvents(sf[s].chan) : Delivered(s, received[sf[s].chan][k].event)

\* the same for files of at least one byte (holds of the code)
C1_NonEmptyFileDelivered ==
  \A s \in Sends :
    (Alone(s) /\ AllDelivered(s) /\ toSend[s].size > 0) =>
      \E k \in FileEvents(sf[s].chan) : Delivered(s, received[sf[s].chan][k].event)

\* ---------------------------------------------------------------- C2
\* index of the last text message before message i of a log (0: none)
RECURSIVE LastText(_, _)
LastText(log, i) ==
  IF i <= 1 THEN 0
  ELSE IF log[i - 1].kind = "text" THEN i - 1 ELSE LastText(log, i - 1)

\* the sendFile call whose metadata frame governs the message at index i
MetaCall(log, i) == IF LastText(log, i) = 0 THEN 0 ELSE log[LastText(log, i)].sid

\* C2 (as claimed): when two sendFile calls use the same channel (the second
\* one starting before the first file has been received, their frames possibly
\* interleaved), every FileReceived emitted under the second call's metadata
\* carries exactly the second file's bytes and length.
C2_SecondFileExact ==
  \A t \in Transports : \A k \in FileEvents(t) :
    \A s \in Sends :
      (s > 1 /\ MetaCall(recvLog[t], received[t][k].at) = s) =>
        Delivered(s, received[t][k].event)

\* ---------------------------------------------------------------- C3
\* C3 (as claimed): no frame, metadata or payload, is handed to channel.send
\* while bufferedAmount exceeds the high-water mark of 10 x 16384 bytes.
C3_NoSendAboveHighWater ==
  \A s \in Sends : \A i \in DOMAIN sf[s].sent : ~sf[s].sent[i].full

\* the same for payload frames alone (holds of the code)
C3_NoPayloadAboveHighWater ==
  \A s \in Sends : \A i \in DOMAIN sf[s].sent :
    sf[s].sent[i].frame.kind = "bin" => ~sf[s].sent[i].full

\* ---------------------------------------------------------------- C4
\* C4: once the receiving end of a channel has closed, whatever the cause, no
\* callback is made for it in the closing step or in any later step: an
\* incomplete transfer never produces FileReceived, its metadata and buffers
\* are never read or changed again, and the channel never reopens.
C4_ClosedTransferNeverCompletes ==
  [][ \A t \in Transports :
        /\ recvState'[t] = "closed" => received'[t] = received[t]
        /\ recvState[t] = "closed" =>
             /\ recvState'[t] = "closed"
             /\ fileMetadata'[t] = fileMetadata[t]
             /\ receivedChunks'[t] = receivedChunks[t] ]_vars

\* a channel closed in the middle of a transfer, and the sender's side closed
\* after it
C4_Witness ==
  \E t \in Transports :
    /\ recvState[t] = "closed" /\ readyState[t] = "closed"
    /\ fileMetadata[t] # NoFile /\ receivedChunks[t] # << >>
    /\ FileEvents(t) = {}

\* ---------------------------------------------------------------- C5
IsPrefix(a, b) == Len(a) <= Len(b) /\ \A i \in 1..Len(a) : a[i] = b[i]

RecvEvents(t) == [k \in DOMAIN received[t] |-> received[t][k].event]

\* ceil(S / C)
FrameCount(S) == (S + chunkSize - 1) \div chunkSize

\* the callbacks the claim lists for one file: cumulative byte counts
\* min(k*C, S) for k = 1..ceil(S/C), then one FileReceived of length S
ExpectedEvents(s) ==
  LET f == toSend[s]
      n == FrameCount(f.size)
  IN  [k \in 1..(n + 1) |->
        IF k <= n
        THEN [type |-> "TransferProgress", filename |-> f.name,
              progress |-> Min(k * chunkSize, f.size), total |-> f.size]
        ELSE [type |-> "FileReceived", name |-> f.name, mime |-> f.type,
              bytes |-> FileBytes(s, f), size |-> f.size,
              fromPeer |-> localPeerName]]

\* C5: for a file of size S > 0 sent alone on its channel, the receiver's
\* callbacks are, in order, ceil(S/C) TransferProgress events with cumulative
\* byte counts min(k*C, S) and total S, followed by exactly one FileReceived
\* of byte length S; at every moment the callbacks made so far are a prefix
\* of that list.
C5_ProgressThenOneFile ==
  \A s \in Sends :
    (Started(s) /\ Alone(s) /\ toSend[s].size > 0) =>
      /\ IsPrefix(RecvEvents(sf[s].chan), ExpectedEvents(s))
      /\ AllDelivered(s) => RecvEvents(sf[s].chan) = ExpectedEvents(s)

\* the 40000-byte file fully received: 16384, 32768, 40000, then the file
C5_Witness ==
  \E s \in Sends :
    /\ Alone(s) /\ AllDelivered(s) /\ toSend[s].size = 40000
    /\ Len(received[sf[s].chan]) = 4
    /\ received[sf[s].chan][3].event.progress = 40000
    /\ received[sf[s].chan][4].event.type = "FileReceived"

\* ---------------------------------------------------------------- C6
\* one metadata frame, then ceil(S/16384) binary frames in offset order
ExpectedFrames(s) ==
  LET f == toSend[s]
      n == FrameCount(f.size)
  IN  << [kind |-> "text", sid |-> s,
          data |-> << "name", f.name, "size", f.size, "type", f.type >>] >>
      \o [k \in 1..n |->
            [kind |-> "bin", sid |-> s, from |-> (k - 1) * chunkSize,
             to |-> Min(k * chunkSize, f.size)]]

\* C6: a sendFile call that returns has sent exactly one text metadata frame
\* {name, size, type} first, then exactly ceil(S/16384) binary frames in
\* increasing offset order, each of at most 16384 bytes, their lengths
\* summing to S, and nothing after them; until then the frames sent are a
\* prefix of that list.
C6_MetadataThenFrames ==
  \A s \in Sends :
    Started(s) =>
      /\ IsPrefix(Frames(s), ExpectedFrames(s))
      /\ \A i \in 2..Len(Frames(s)) :
           Frames(s)[i].kind = "bin" /\ byteLength(Frames(s)[i]) <= 16384
      /\ sf[s].pc = "done" =>
           /\ Frames(s) = ExpectedFrames(s)
           /\ Len(Frames(s)) = 1 + FrameCount(toSend[s].size)
           /\ SumBytes(Tail(Frames(s))) = toSend[s].size

\* the 40000-byte file sent completely: frames of 16384, 16384 and 7232 bytes
C6_Witness ==
  \E s \in Sends :
    /\ sf[s].pc = "done" /\ toSend[s].size = 40000
    /\ Len(sf[s].sent) = 4
    /\ byteLength(Frames(s)[4]) = 7232

\* ---------------------------------------------------------------- C7
\* bytes of the binary messages j+1 .. i of a log
RECURSIVE Acc(_, _, _)
Acc(log, j, i) ==
  IF i <= j THEN 0
  ELSE (IF log[i].kind = "bin" THEN log[i].to - log[i].from ELSE 0) + Acc(log, j, i - 1)

\* size declared by the metadata text at index j
Declared(log, j) == log[j].data[4]

\* metadata is active just before message i: a text precedes it, and the
\* bytes accumulated since that text have not yet reached its declared size
\* at any binary message in between
ActiveAt(log, i) ==
  LET j == LastText(log, i)
  IN  /\ j # 0
      /\ \A k \in (j + 1)..(i - 1) : Acc(log, j, k) < Declared(log, j)

\* message i is the first binary message after which the bytes accumulated
\* since the governing metadata frame are >= its declared size
CompletesAt(log, i) ==
  /\ log[i].kind = "bin"
  /\ ActiveAt(log, i)
  /\ Acc(log, LastText(log, i), i) >= Declared(log, LastText(log, i))

FileEventsAt(t, i) == { k \in FileEvents(t) : received[t][k].at = i }

\* C7: for any sequence of text and binary messages on a channel, exactly one
\* FileReceived is emitted at each binary message that first brings the bytes
\* accumulated since the governing metadata frame to its declared size, none
\* at any other message (so at most one per metadata frame), and right after
\* such a message there is no active metadata and the buffer list is empty.
C7_CompletionExactlyOnce ==
  \A t \in Transports :
    LET log == recvLog[t] IN
      /\ \A i \in 1..Len(log) :
           Cardinality(FileEventsAt(t, i)) = IF CompletesAt(log, i) THEN 1 ELSE 0
      /\ (Len(log) > 0 /\ CompletesAt(log, Len(log))) =>
           (fileMetadata[t] = NoFile /\ receivedChunks[t] = << >>)

\* a file was completed and a further binary message followed it
C7_Witness ==
  \E t \in Transports : \E i \in 1..Len(recvLog[t]) :
    /\ CompletesAt(recvLog[t], i)
    /\ LastText(recvLog[t], i) < i - 1
    /\ i < Len(recvLog[t]) /\ recvLog[t][i + 1].kind = "bin"

\* ---------------------------------------------------------------- C8
\* the text at index j replaces a transfer that had received bytes and was
\* not complete
Replaces(log, j) ==
  /\ log[j].kind = "text"
  /\ ActiveAt(log, j)
  /\ Acc(log, LastText(log, j), j - 1) < Declared(log, LastText(log, j))
  /\ Acc(log, LastText(log, j), j - 1) > 0

\* C8: a text message always starts a new transfer: right after it the
\* buffer list is empty and its metadata is the active one, no callback is
\* made for the transfer it replaces, and every file delivered consists of
\* exactly the binary messages received after its own metadata frame.
C8_LastMetadataWins ==
  \A t \in Transports :
    LET log == recvLog[t]
        n == Len(log)
    IN  /\ (n > 0 /\ log[n].kind = "text") =>
             /\ receivedChunks[t] = << >>
             /\ fileMetadata[t] = [name |-> log[n].data[2], size |-> log[n].data[4],
                                   type |-> log[n].data[6]]
        /\ \A k \in DOMAIN received[t] : log[received[t][k].at].kind = "bin"
        /\ \A k \in FileEvents(t) :
             LET i == received[t][k].at
             IN  received[t][k].event.bytes = Blob(SubSeq(log, LastText(log, i) + 1, i))

\* an incomplete transfer was replaced, and a file was delivered afterwards
C8_Witness ==
  \E t \in Transports : \E j \in 1..Len(recvLog[t]) :
    /\ Replaces(recvLog[t], j)
    /\ \E k \in FileEvents(t) : received[t][k].at > j

\* ---------------------------------------------------------------- C9
\* message i is binary and arrives with no active metadata
Orphan(log, i) == log[i].kind = "bin" /\ ~ActiveAt(log, i)

\* C9: a binary message that arrives with no active metadata produces no
\* TransferProgress and no FileReceived, and none of its bytes is part of any
\* file delivered on the channel.
C9_OrphanDropped ==
  \A t \in Transports : \A i \in 1..Len(recvLog[t]) :
    Orphan(recvLog[t], i) =>
      /\ \A k \in DOMAIN received[t] : received[t][k].at # i
      /\ \A k \in FileEvents(t) :
           \A b \in DOMAIN received[t][k].event.bytes :
             received[t][k].event.bytes[b].sid # recvLog[t][i].sid

\* a binary message was dropped, and a file was delivered later
C9_Witness ==
  \E t \in Transports : \E i \in 1..Len(recvLog[t]) :
    /\ Orphan(recvLog[t], i)
    /\ \E k \in FileEvents(t) : received[t][k].at > i /\ received[t][k].event.size > 0

\* ---------------------------------------------------------------- C10
NotConnected == {"absent", "nochannel", "none", "connecting", "closing", "closed"}

\* C10: a sendFile call that finds no registry entry for peerId, an entry
\* without a channel, or a channel whose state is not open, fails with
\* "Peer not connected", has sent no frame and has reported no progress.
C10_PeerNotConnected ==
  \A s \in Sends :
    sf[s].found \in NotConnected =>
      /\ sf[s].pc = "failed"
      /\ sf[s].error = "Peer not connected"
      /\ sf[s].sent = << >>
      /\ sf[s].progress = << >>

\* one call failed for want of a registry entry, another on a closing channel
C10_Witness ==
  \E s, r \in Sends :
    /\ sf[s].found = "absent" /\ sf[s].pc = "failed"
    /\ sf[r].found = "closing" /\ sf[r].pc = "failed"

\* ------------------------------------------------------------ negotiation
\* completeConnection calls that have been made
Completed == { c \in Completes : cc[c].pc # "idle" }

\* transport t was made by createOffer right after the createOffer that made
\* transport t - 1, with no completeConnection call between the two, and no
\* createOffer, acceptOffer or disconnect has come after it
SecondOffer(t) ==
  /\ t - 1 \in Transports
  /\ call[t - 1].op = "createOffer"
  /\ call[t].op = "createOffer"
  /\ \A c \in Completed : cc[c].after # t - 1
  /\ nextT = t + 1
  /\ connection[t] = "open"

\* C11: after two createOffer calls with no completeConnection between them,
\* the registry holds the transport of the second offer under the local id
\* until a completeConnection call takes it, and a completeConnection call
\* made then is applied to the transport of the second offer or to none,
\* never to the transport of the first offer.
C11_SecondOfferPending ==
  \A t \in Transports : SecondOffer(t) =>
    /\ (\A c \in Completed : cc[c].after < t) => peers[localPeerId] = t
    /\ \A c \in Completed : cc[c].after = t => cc[c].t \in {0, t}

\* the same, when the channel of the first offer has not been closed
C11_SecondOfferPendingWhileFirstOpen ==
  \A t \in Transports : (SecondOffer(t) /\ readyState[t - 1] = "connecting") =>
    /\ (\A c \in Completed : cc[c].after < t) => peers[localPeerId] = t
    /\ \A c \in Completed : cc[c].after = t => cc[c].t \in {0, t}

\* the answer to the first offer has been applied to the second transport
C11_AppliedToSecond ==
  \E t \in Transports : \E c \in Completed :
    /\ SecondOffer(t) /\ cc[c].after = t /\ cc[c].pc = "done" /\ cc[c].t = t
    /\ remoteDescription[t] = Description(S_answer, SdpText(AnswerMark(t - 1)))

NoPendingConnection == "No pending connection found. Create an offer first."

\* an offer is outstanding: a transport made by createOffer that is not
\* closed, whose channel is not closed, and that has taken no answer
OfferOutstanding ==
  \E t \in Transports :
    /\ call[t].op = "createOffer"
    /\ connection[t] = "open"
    /\ readyState[t] = "connecting"
    /\ remoteDescription[t] = Undefined

\* C12: a completeConnection call made while no offer is outstanding throws
\* NoPendingConnection at once and leaves the registry and the peer objects
\* as they are.
C12_NoPendingConnection ==
  [][ \A c \in Completes :
        (cc[c].pc = "idle" /\ cc'[c].pc # "idle" /\ ~OfferOutstanding)
        => /\ cc'[c].pc = "failed"
           /\ cc'[c].error = NoPendingConnection
           /\ peers' = peers
           /\ peer' = peer ]_vars

\* a call has failed so after an earlier call succeeded
C12_Witness ==
  \E c, d \in Completed : d < c /\ cc[d].pc = "done" /\ cc[c].error = NoPendingConnection

\* a call has failed so before any createOffer
C12_WitnessBeforeOffer ==
  \E c \in Completed : cc[c].error = NoPendingConnection /\ cc[c].after = 0

\* a call has failed so after disconnect() closed the pending offer and the
\* close event of its channel was handled
C12_WitnessAfterDisconnect ==
  \E c \in Completed : \E t \in Transports :
    /\ cc[c].error = NoPendingConnection
    /\ call[t].op = "createOffer" /\ cc[c].after = t
    /\ connection[t] = "closed" /\ readyState[t] = "closed"
    /\ remoteDescription[t] = Undefined

\* completeConnection call c returns without an error in this step
Succeeds(c) == cc[c].pc = "applying" /\ cc'[c].pc = "done"

\* C13: when completeConnection succeeds, the registry has no entry under the
\* local id, and its only entry for the transport the call found is under the
\* peerId of the answer; the peer object is the one createOffer made, with its
\* transport and channel, and carries the peerName of the answer.
C13_EntryPromoted ==
  [][ \A c \in Completes : Succeeds(c) =>
        LET t == cc[c].t
            answer == cc[c].answerData
        IN  /\ peers'[localPeerId] = 0
            /\ { k \in Keys : peers'[k] = t } = { Get(answer, K_peerId) }
            /\ Get(answer, K_peerId) \in RemoteIds
            /\ peer'[t].id = Get(answer, K_peerId)
            /\ peer'[t].name = Get(answer, K_peerName)
            /\ call[t].op = "createOffer"
            /\ peer'[t].dataChannel /\ readyState'[t] = readyState[t]
            /\ connection'[t] = "open" ]_vars

\* a call has succeeded and its entry is in the registry under the remote id
C13_Witness ==
  \E c \in Completed : \E rid \in RemoteIds :
    /\ cc[c].pc = "done"
    /\ peers[rid] = cc[c].t
    /\ peers[localPeerId] = 0
    /\ peer[cc[c].t].name = RemoteName(rid)

\* completeConnection call c hands its answer to the transport in this step,
\* and the transport's rejection is thrown by call c in this step
Applies(c) == cc[c].pc = "idle" /\ cc'[c].pc = "applying"
Rejected(c) == cc[c].pc = "applying" /\ cc'[c].pc = "failed"

\* what a transport rejects a description with
NegotiationErrors == { "OperationError", "InvalidStateError" }

\* C14: a completeConnection call whose answer the transport rejects throws
\* the transport's error, and neither of its two steps changes the registry
\* or a peer object: an entry that is under the local id when the rejection
\* arrives is still there, with the local id and name.
C14_RejectionLeavesRegistry ==
  [][ \A c \in Completes :
        /\ (Applies(c) \/ Rejected(c)) => (peers' = peers /\ peer' = peer)
        /\ Rejected(c) =>
              /\ cc'[c].error \in NegotiationErrors
              /\ peers[localPeerId] = cc[c].t =>
                    /\ peers'[localPeerId] = cc[c].t
                    /\ peer'[cc[c].t].id = localPeerId
                    /\ peer'[cc[c].t].name = localPeerName ]_vars

\* the transport has rejected an answer that is not SDP, and the offer is
\* still pending under the local id
C14_Witness ==
  \E c \in Completed :
    /\ cc[c].pc = "failed" /\ cc[c].error = "OperationError"
    /\ peers[localPeerId] = cc[c].t
    /\ peer[cc[c].t].id = localPeerId
    /\ connection[cc[c].t] = "open"

\* ------------------------------------------------------------ descriptors
\* the acceptOffer call of slot t was given a code that is not Base64 or not
\* JSON, or the code of a value that lacks one of the four properties
Malformed(t) ==
  /\ call[t].op = "acceptOffer"
  /\ \/ call[t].offerData = Undefined
     \/ ~IsObj(call[t].offerData)
     \/ \E key \in DescriptorKeys : Get(call[t].offerData, key) = Undefined

Registered(t) == \E k \in Keys : peers[k] = t

\* C15: an acceptOffer call given a malformed descriptor does not return an
\* answer, and no registry entry is made for it.
C15_MalformedOfferFails ==
  \A t \in Transports : Malformed(t) => (call[t].pc # "returned" /\ ~Registered(t))

\* the same for the descriptors the code does refuse: text that is not
\* Base64, not JSON, not an object, or without sdp
C15_UndecodableOfferFails ==
  \A t \in Transports :
    (Malformed(t) /\ (IsObj(call[t].offerData) => Get(call[t].offerData, K_sdp) = Undefined))
    => (call[t].pc = "failed" \/ call[t].pc = "negotiating") /\ ~Registered(t)

\* calls have failed on text that is not Base64, on text that is not JSON
\* and on a descriptor without sdp
C15_RefusedWitness ==
  \E t \in Transports :
    /\ call[t].op = "acceptOffer" /\ call[t].pc = "failed"
    /\ IsObj(call[t].offerData) /\ Get(call[t].offerData, K_sdp) = Undefined
    /\ \E u \in Transports : call[u].error = "SyntaxError"

\* the createOffer / acceptOffer call of slot t resumes after the ICE
\* gathering wait in this step, and encodes its descriptor
Encodes(t) == call[t].pc = "gathering" /\ call'[t].pc # "gathering"

Built(t) == IF call[t].op = "createOffer" THEN offerData(t) ELSE answerData(t)

RoundTrip(data) ==
  /\ Encode(data).ok
  /\ Decode(Encode(data).v) = Value(data)

\* C16: every descriptor createOffer and acceptOffer build is encoded, the
\* call returns the code, and decoding the code gives the descriptor back.
C16_RoundTrip ==
  [][ \A t \in Transports : Encodes(t) =>
        (RoundTrip(Built(t)) /\ call'[t].pc = "returned") ]_vars

\* btoa takes the string: all its code units are at most 255
Latin1(v) == \A i \in 1..Len(v.str) : v.str[i] <= 255

\* the same for the descriptors of a user whose display name is Latin-1,
\* and for the descriptors of the peer
C16_RoundTripLatin1 ==
  [][ \A t \in Transports : (Encodes(t) /\ Latin1(localPeerName)) =>
        /\ RoundTrip(Built(t)) /\ call'[t].pc = "returned"
        /\ \A rid \in RemoteIds : RoundTrip(RemoteOffer(rid))
                                   /\ RoundTrip(RemoteAnswer(rid, t)) ]_vars

\* an offer whose display name has a code unit above 127 has been returned
C16_Latin1Witness ==
  \E t \in Transports :
    /\ call[t].op = "createOffer" /\ call[t].pc = "returned"
    /\ \E i \in 1..Len(localPeerName.str) : localPeerName.str[i] > 127

\* C17: a createOffer or acceptOffer call that waits for ICE gathering
\* finishes: it returns its descriptor or fails.
C17_NegotiationFinishes ==
  \A t \in Transports :
    (call[t].pc = "gathering") ~> (call[t].pc \in {"returned", "failed"})

\* the awaits on the descriptions do finish
C17_DescriptionsFinish ==
  \A t \in Transports :
    (call[t].pc = "negotiating") ~> (call[t].pc # "negotiating")

\* -------------------------------------------------------- channel events
\* the close event of the channel of transport t is handled in this step
CloseHandled(t) == readyState[t] = "closing" /\ readyState'[t] = "closed"

\* number of events of a type in a log
RECURSIVE CountType(_, _)
CountType(log, type) ==
  IF log = << >> THEN 0
  ELSE (IF Head(log).type = type THEN 1 ELSE 0) + CountType(Tail(log), type)

\* C18: the step that handles the close event of a channel leaves no registry
\* entry under the id of the channel's peer and emits one PeerDisconnected
\* with that id and nothing else; there are as many PeerDisconnected events
\* as close events handled.
C18_CloseRemovesAndNotifies ==
  /\ [][ \A t \in Transports : CloseHandled(t) =>
           /\ peers'[peer[t].id] = 0
           /\ peerEvents' = Append(peerEvents,
                                   [type |-> "PeerDisconnected", id |-> peer[t].id]) ]_vars
  /\ [](CountType(peerEvents, "PeerDisconnected")
          = Cardinality({ t \in Transports : readyState[t] = "closed" }))

\* the channel of a connected remote peer has closed and its entry is gone
C18_Witness ==
  \E t \in Transports : \E rid \in RemoteIds :
    /\ readyState[t] = "closed" /\ peer[t].id = rid /\ peers[rid] = 0
    /\ connection[t] = "open"
    /\ \E i, j \in 1..Len(peerEvents) :
          /\ i < j
          /\ peerEvents[i] = [type |-> "PeerConnected", id |-> rid]
          /\ peerEvents[j] = [type |-> "PeerDisconnected", id |-> rid]

\* the open event of the channel of transport t fires in this step
Opens(t) == readyState[t] # "open" /\ readyState'[t] = "open"

Responder(t) == call[t].op = "acceptOffer"

\* C19: when the open event of a responder's channel fires, acceptOffer has
\* stored the peer and the registry has an entry under that peer's id; and a
\* step emits one PeerConnected for each channel that opens in it and no
\* other.
C19_RegisteredBeforeOpen ==
  [][ /\ \A t \in Transports : (Opens(t) /\ Responder(t)) =>
           (call[t].pc = "returned" /\ peers[peer[t].id] # 0)
      /\ CountType(peerEvents', "PeerConnected")
           = CountType(peerEvents, "PeerConnected")
             + Cardinality({ t \in Transports : Opens(t) }) ]_vars

\* the same, when no other transport is for the same peer id
C19_RegisteredBeforeOpenOneTransport ==
  [][ /\ \A t \in Transports :
           (Opens(t) /\ Responder(t)
              /\ \A u \in Transports \ {t} : peer[u].id # peer[t].id) =>
           (call[t].pc = "returned" /\ peers[peer[t].id] = t)
      /\ CountType(peerEvents', "PeerConnected")
           = CountType(peerEvents, "PeerConnected")
             + Cardinality({ t \in Transports : Opens(t) }) ]_vars

\* a responder's channel has opened with its entry in the registry
C19_OpenedWitness ==
  \E t \in Transports :
    /\ Responder(t) /\ readyState[t] = "open" /\ peers[peer[t].id] = t
    /\ peerEvents = << [type |-> "PeerConnected", id |-> peer[t].id] >>

\* the transports the registry holds
Held == { peers[p] : p \in { q \in Keys : peers[q] # 0 } }

\* C20: after disconnect() the registry is empty, and every transport the
\* registry held is closed and its channel is no longer connecting or open.
C20_DisconnectClosesHeld ==
  [][ disconnect =>
        /\ \A p \in Keys : peers'[p] = 0
        /\ \A t \in Held :
             /\ connection'[t] = "closed"
             /\ peer[t].dataChannel => readyState'[t] \in {"closing", "closed"} ]_vars

\* a transport is closed by the engine only in a step that leaves the registry empty
C20_ClearedAfterClose ==
  [][ (\E t \in Transports : connection[t] = "open" /\ connection'[t] = "closed")
        => \A p \in Keys : peers'[p] = 0 ]_vars

\* disconnect() has closed an open channel together with its transport
C20_Witness ==
  \E t \in Transports :
    /\ \A p \in Keys : peers[p] = 0
    /\ connection[t] = "closed" /\ readyState[t] = "closing"
    /\ \E i \in 1..Len(peerEvents) :
         peerEvents[i] = [type |-> "PeerConnected", id |-> peer[t].id]

\* sendFile call s is between its metadata frame and its return
InProgress(s) == sf[s].pc \in {"read", "wait"}

\* the channel sendFile call s writes to is no longer open
ChannelGone(s) == InProgress(s) /\ readyState[sf[s].chan] # "open"

\* once the channel is gone, call s sends no frame and reports no progress
C21_NothingAfterClose ==
  [][ \A s \in Sends : ChannelGone(s) =>
        /\ sf'[s].sent = sf[s].sent
        /\ sf'[s].progress = sf[s].progress
        /\ \A t \in Transports : Len(buffered'[t]) <= Len(buffered[t]) ]_vars

\* C21: when the channel closes or disconnect() is called while sendFile is
\* in progress, sendFile fails in the end, and sends no frame and reports no
\* progress after the close.
C21_SendFileAborts ==
  /\ \A s \in Sends : ChannelGone(s) ~> (sf[s].pc = "failed")
  /\ C21_NothingAfterClose

\* a call that is not polling a full buffer when the channel goes does fail
C21_AbortsUnlessPolling ==
  \A s \in Sends :
    (ChannelGone(s) /\ bufferedAmount(sf[s].chan) <= HighWaterMark)
      ~> (sf[s].pc = "failed")

\* sendFile polls a buffer that is over the mark on a channel that is gone
C21_PollingClosedChannel ==
  \E s \in Sends :
    /\ sf[s].pc = "wait" /\ readyState[sf[s].chan] \in {"closing", "closed"}
    /\ bufferedAmount(sf[s].chan) > HighWaterMark

\* C22: no two keys of the registry hold the same transport.
C22_OneKeyPerTransport ==
  \A p, q \in Keys : (p # q /\ peers[p] # 0) => peers[p] # peers[q]

\* an offer has been promoted to the answerer's id while another is pending
C22_Witness ==
  \E c \in Completes, rid \in RemoteIds :
    /\ cc[c].pc = "done"
    /\ peers[rid] = cc[c].t
    /\ peers[localPeerId] \notin {0, cc[c].t}

\* the channel of transport t exists at the engine and is open
OpenChannel(t) == peer[t].dataChannel /\ readyState[t] = "open"

\* C23: for each peer id at most one channel of the engine is open.
C23_OneOpenChannelPerPeer ==
  \A t, u \in Transports :
    (t # u /\ OpenChannel(t) /\ OpenChannel(u)) => peer[t].id # peer[u].id

\* the same remote peer was offered to and accepted from, and both channels
\* are open
C23_OfferedAndAccepted ==
  \E t, u \in Transports :
    /\ call[t].op = "createOffer" /\ call[u].op = "acceptOffer"
    /\ OpenChannel(t) /\ OpenChannel(u) /\ peer[t].id = peer[u].id

\* the call on transport t has produced its local description
Described(t) == call[t].pc \in {"gathering", "returned"}

\* C24: a createOffer call has its offer description only on a transport that
\* has the local channel, and an acceptOffer call has its answer only on a
\* transport to which the offer it was given has been applied.
C24_DescriptionOrder ==
  \A t \in Transports : Described(t) =>
    /\ call[t].op = "createOffer" =>
         (peer[t].dataChannel /\ readyState[t] # "none")
    /\ call[t].op = "acceptOffer" =>
         /\ IsDescription(remoteDescription[t], S_offer)
         /\ remoteDescription[t] = Get(call[t].offerData, K_sdp)

\* an offer and an answer have both been returned
C24_Witness ==
  \E t, u \in Transports :
    /\ call[t].op = "createOffer" /\ call[t].pc = "returned"
    /\ call[u].op = "acceptOffer" /\ call[u].pc = "returned"

\* the sendFile calls sendFiles call b has made are for its files, in the
\* order of the selection, to the peer of the button
InSelectionOrder(b) ==
  LET c == sendFilesCalls[b] IN
    /\ Len(c.sends) <= Len(c.files)
    /\ \A k \in 1..Len(c.sends) :
         /\ sf[c.sends[k]].pc # "idle"
         /\ toSend[c.sends[k]] = c.files[k]
         /\ sf[c.sends[k]].peerId = c.peerId
         /\ k > 1 => c.sends[k - 1] < c.sends[k]

\* every call but the last one made has returned: a file is started only
\* when the files before it are sent, and none is started after a failure
OneAfterAnother(b) ==
  LET c == sendFilesCalls[b] IN
    /\ \A k \in 1..(Len(c.sends) - 1) : sf[c.sends[k]].pc = "done"
    /\ c.pc = "failed" => sf[c.sends[Len(c.sends)]].pc = "failed"
    /\ c.pc = "sent" =>
         (Len(c.sends) = Len(c.files) /\ sf[c.sends[Len(c.sends)]].pc = "done")

\* the frames of a sendFile call that has settled
Settled(s) == sf[s].pc \in {"done", "failed"}

\* C25: sendFiles sends the selected files one after another in selection
\* order; after the sendFile of file k has failed no later file is started,
\* and what was sent of the files before stays as it was sent.
C25_BatchStopsAtFailure ==
  /\ [](\A b \in Presses : InSelectionOrder(b) /\ OneAfterAnother(b))
  /\ [][ \A s \in Sends : Settled(s) => sf'[s] = sf[s] ]_vars

\* the first of two files was sent and the second failed
C25_Witness ==
  \E b \in Presses :
    LET c == sendFilesCalls[b] IN
      /\ c.pc = "failed" /\ Len(c.files) = 2 /\ Len(c.sends) = 2
      /\ sf[c.sends[1]].pc = "done" /\ Len(sf[c.sends[1]].sent) > 1
      /\ sf[c.sends[2]].pc = "failed"

\* the first of two files failed and nothing of the second was sent
C25_FirstFailed ==
  \E b \in Presses :
    LET c == sendFilesCalls[b] IN
      /\ c.pc = "failed" /\ Len(c.files) = 2 /\ Len(c.sends) = 1
      /\ sf[c.sends[1]].error = "InvalidStateError"

\* C26: no two sendFile calls to the same peer are in progress at once.
C26_OneInFlightPerPeer ==
  \A s, r \in Sends :
    (s # r /\ InProgress(s) /\ InProgress(r)) => sf[s].peerId # sf[r].peerId

\* the sendFile calls of one sendFiles call are never in progress together
C26_OneInFlightPerCall ==
  \A b \in Presses :
    LET c == sendFilesCalls[b] IN
      \A j, k \in 1..Len(c.sends) :
        (j # k /\ InProgress(c.sends[j])) => ~InProgress(c.sends[k])

\* two presses of the Send button of one peer are both sending
C26_TwoPresses ==
  \E a, b \in Presses :
    /\ a # b
    /\ sendFilesCalls[a].pc = "sending" /\ sendFilesCalls[b].pc = "sending"
    /\ sendFilesCalls[a].peerId = sendFilesCalls[b].peerId

\* the payload frames sendFile call s has sent, the first i of them
Payload(s, i) == [j \in 1..i |-> sf[s].sent[j + 1].frame]

\* C27: sendFile reports progress once after each payload frame; the reports
\* are the bytes sent so far, strictly increasing and never above the file
\* size, and the last report of a call that has returned is the file size.
C27_ProgressPerFrame ==
  \A s \in Sends : sf[s].sent # << >> =>
    LET reports == sf[s].progress
        S == sf[s].file.size
    IN  /\ Len(reports) = Len(sf[s].sent) - 1
        /\ \A i \in 1..Len(reports) :
             /\ reports[i] = SumBytes(Payload(s, i))
             /\ reports[i] <= S
             /\ (IF i = 1 THEN 0 ELSE reports[i - 1]) < reports[i]
        /\ (sf[s].pc = "done" /\ S > 0) => reports[Len(reports)] = S

\* a file that does not end on a frame boundary has been sent in three frames
C27_Witness ==
  \E s \in Sends :
    /\ sf[s].pc = "done" /\ sf[s].file.size = 40000
    /\ sf[s].progress = << 16384, 32768, 40000 >>

\* number of storage uploads call u has started for chunk i
Attempts(u, i) ==
  Cardinality({ k \in 1..Len(uploadCalls[u].attempts) : uploadCalls[u].attempts[k] = i })

\* chunks call u has started an upload for
Attempted(u) == { uploadCalls[u].attempts[k] : k \in 1..Len(uploadCalls[u].attempts) }

\* an attempt of call u fails in this step
AttemptFails(u) ==
  /\ uploadCalls[u].pc \in {"uploading", "recording"}
  /\ uploadCalls'[u].pc \in {"waiting", "failed"}

\* C28: a chunk is attempted at most 3 times, with a wait of 2 s before each
\* further attempt; when the third attempt of a chunk fails the upload is
\* marked failed and an error is shown, and no chunk is attempted afterwards.
C28_ThreeAttempts ==
  /\ [](\A u \in Uploads :
          LET c == uploadCalls[u] IN
            /\ \A i \in Attempted(u) : Attempts(u, i) <= 3
            /\ \A k \in 1..Len(c.waits) : c.waits[k] = 2000
            /\ Len(c.attempts) - Cardinality(Attempted(u))
                 = Len(c.waits) - (IF c.pc = "waiting" THEN 1 ELSE 0)
            /\ (c.pc = "failed" /\ c.attempts # << >>) => \A i \in Attempted(u) : i <= c.i)
  /\ [][ \A u \in Uploads :
           LET c == uploadCalls[u] IN
             /\ (AttemptFails(u) /\ Attempts(u, c.i) = 3) =>
                  /\ uploadCalls'[u].pc = "failed"
                  /\ uploads'[u].status = "failed"
                  /\ uploadCalls'[u].toasts = Append(c.toasts, "error")
             /\ (AttemptFails(u) /\ Attempts(u, c.i) < 3) =>
                  uploadCalls'[u].pc = "waiting"
             /\ c.pc = "failed" => uploadCalls'[u] = c ]_vars

\* the first chunk of two failed three times, twice on the storage upload
\* and once on the record, and the second was never attempted
C28_Witness ==
  \E u \in Uploads :
    LET c == uploadCalls[u] IN
      /\ c.pc = "failed" /\ Len(c.chunks) = 2
      /\ c.attempts = << 0, 0, 0 >> /\ c.waits = << 2000, 2000 >>
      /\ c.error = "Database record failed"
      /\ uploads[u].status = "failed"

\* chunk i of the file with this id is in the bucket and has its row
Recorded(id, i) ==
  /\ storage[chunkPath(id, i)] = "stored"
  /\ \E row \in file_chunks :
       /\ row.file_id = id /\ row.chunk_number = i
       /\ row.upload_status = "completed"

\* C29: a shared_files record is completed only when every chunk 0..n-1 of
\* its file is uploaded and recorded as completed; chunks are attempted in
\* index order, each after the ones before it are recorded; and the record
\* of an upload that failed is never completed.
C29_CompletedAfterAllChunks ==
  \A u \in Uploads :
    LET c == uploadCalls[u] IN
      /\ shared_files[u].upload_status = "completed" =>
           /\ shared_files[u].total_chunks = Len(c.chunks)
           /\ \A i \in 0..(Len(c.chunks) - 1) : Recorded(u, i)
      /\ \A k \in 1..Len(c.attempts) :
           /\ k > 1 => c.attempts[k - 1] <= c.attempts[k]
           /\ \A i \in 0..(c.attempts[k] - 1) : Recorded(u, i)
      /\ c.pc = "failed" => shared_files[u].upload_status # "completed"

\* a file of two chunks is completed, its second chunk at the third attempt
C29_Witness ==
  \E u \in Uploads :
    /\ uploadCalls[u].pc = "completed"
    /\ uploadCalls[u].attempts = << 0, 1, 1, 1 >>
    /\ shared_files[u].upload_status = "completed"
    /\ Recorded(u, 0) /\ Recorded(u, 1)

\* an upload that failed on its second chunk, its record not completed
C29_FailedOnChunk ==
  \E u \in Uploads :
    /\ uploadCalls[u].pc = "failed" /\ uploadCalls[u].i = 1
    /\ Recorded(u, 0) /\ ~Recorded(u, 1)
    /\ shared_files[u].upload_status = "uploading"

\* getPeers(): the peer objects the registry holds, by transport
getPeers == { peers[p] : p \in { q \in Keys : peers[q] # 0 } }

\* C30: every peer getPeers() returns has an open channel and the id of a
\* remote peer.
C30_PeersAreConnected ==
  \A t \in getPeers : OpenChannel(t) /\ peer[t].id \in RemoteIds

\* a peer getPeers() returns with an open channel has a remote peer's id
C30_OpenPeersAreRemote ==
  \A t \in getPeers : OpenChannel(t) => peer[t].id \in RemoteIds

\* getPeers() returns the pending offer, under the local id
C30_PendingOfferListed ==
  \E t \in getPeers : peer[t].id = localPeerId /\ readyState[t] = "connecting"

\* C31: the close event of the channel of transport t leaves every registry
\* entry that holds another transport as it is.
C31_CloseRemovesOwnEntry ==
  [][ \A t \in Transports : onclose(t) =>
        \A p \in Keys : (peers[p] # 0 /\ peers[p] # t) => peers'[p] = peers[p] ]_vars

\* the close event leaves the entries under every other id as they are
C31_CloseLeavesOtherIds ==
  [][ \A t \in Transports : onclose(t) =>
        \A p \in Keys \ {peer[t].id} : peers'[p] = peers[p] ]_vars

\* the close event of an older transport has removed the entry of a newer
\* one that is still open
C31_NewerEntryRemoved ==
  \E t, u \in Transports :
    /\ t < u /\ readyState[t] = "closed"
    /\ connection[u] = "open" /\ readyState[u] \in {"connecting", "open"}
    /\ peer[t].id = peer[u].id /\ peers[peer[u].id] = 0

\* transport t is that of a createOffer or acceptOffer call that has not
\* returned or thrown yet, or of a completeConnection call that awaits
InProgressCall(t) ==
  \/ call[t].pc \in {"negotiating", "gathering"}
  \/ \E c \in Completes : cc[c].pc = "applying" /\ cc[c].t = t

\* C32: every transport that is not closed is held by the registry or by a
\* call in progress.
C32_OpenTransportsHeld ==
  \A t \in Transports :
    connection[t] = "open" => (t \in getPeers \/ InProgressCall(t))

\* the only transport there is, after its call returned and while its channel
\* has not closed, is held by the registry
C32_SingleTransportHeld ==
  \A t \in Transports :
    ( /\ connection[t] = "open" /\ call[t].pc = "returned"
      /\ readyState[t] \notin {"closing", "closed"}
      /\ \A u \in Transports \ {t} : call[u].op = "none" )
    => t \in getPeers

\* a second createOffer has replaced the entry of the first offer, whose
\* transport stays open after disconnect()
C32_LeakedAfterDisconnect ==
  \E t, u \in Transports :
    /\ t < u /\ call[t].op = "createOffer" /\ call[u].op = "createOffer"
    /\ connection[t] = "open" /\ connection[u] = "closed"
    /\ getPeers = {}

\* C33: the buffer list of a channel is empty whenever the channel has no
\* active metadata.
C33_NoBuffersWithoutMetadata ==
  \A t \in Transports : fileMetadata[t] = NoFile => receivedChunks[t] = << >>

\* the buffer list without active metadata holds exactly the binary messages
\* received since the last completion or, if there was none, since the channel
\* was set up: the next text message empties it
C33_OrphansUntilNextText ==
  \A t \in Transports :
    LET log == recvLog[t]
        n == Len(log)
    IN  (n > 0 /\ log[n].kind = "text") => receivedChunks[t] = << >>

\* two binary messages without active metadata are both in the buffer list
C33_OrphansAccumulated ==
  \E t \in Transports :
    /\ fileMetadata[t] = NoFile /\ Len(receivedChunks[t]) >= 2

\* ------------------------------------------------------ two receiving channels
\* Two peers have each offered a connection; the engine accepts both and
\* receives on the two channels, the messages of a channel carrying bytes
\* that name the channel: message n of channel t carries (10 * t + n, i).
TwoPeersInit ==
  /\ toSend = [s \in Sends |-> SmallFile]
  /\ localPeerName = Ana
  /\ limit = [transports |-> MaxNegotiations, completes |-> MaxNegotiations]
  /\ Fresh

FramesOf(t) == AnyFrame(10 * t + Len(recvLog[t]) + 1)

TwoPeersNext ==
  \/ \E code \in WellFormedOffers : acceptOffer(code)
  \/ \E t \in Transports : setLocalDescription(t)
  \/ \E t \in Transports : icegatheringstatechange(t)
  \/ \E t \in Transports : ondatachannel(t)
  \/ \E t \in Transports : \E fr \in FramesOf(t) : Arrive(t, fr)
  \/ \E t \in Transports : onmessage(t)

TwoPeersSpec == TwoPeersInit /\ [][TwoPeersNext]_vars


\* every file delivered on channel t consists of exactly the binary messages
\* of channel t since its own metadata frame, bytes of no other channel
OwnExactBytes(t) ==
  \A k \in FileEvents(t) :
    LET i == received[t][k].at
        bytes == received[t][k].event.bytes
    IN  /\ bytes = Blob(SubSeq(recvLog[t], LastText(recvLog[t], i) + 1, i))
        /\ \A b \in DOMAIN bytes : bytes[b].sid \div 10 = t
        /\ received[t][k].event.name = recvLog[t][LastText(recvLog[t], i)].data[2]

\* a message handled on channel t leaves the reassembly state and the
\* callbacks of every other channel as they are
OnlyOwnState(t) ==
  onmessage(t) =>
    \A u \in Transports \ {t} :
      /\ fileMetadata'[u] = fileMetadata[u]
      /\ receivedChunks'[u] = receivedChunks[u]
      /\ received'[u] = received[u]

\* C34: a message received on the channel of one peer changes only that
\* channel's reassembly state, and the files received concurrently on two
\* channels are each delivered with their own exact bytes.
C34_IsolatedPerPeer ==
  /\ [](\A t \in Transports : OwnExactBytes(t))
  /\ [][\A t \in Transports : OnlyOwnState(t)]_vars

\* a file has been delivered on one channel while a transfer on the other
\* channel is in flight with bytes received
C34_Witness ==
  \E t, u \in Transports :
    /\ t # u
    /\ \E k \in FileEvents(t) : received[t][k].event.size > 0
    /\ fileMetadata[u] # NoFile /\ receivedChunks[u] # << >>

\* the event at index i of the log is a PeerDisconnected that no PeerConnected
\* with the same id precedes
Unannounced(log, i) ==
  /\ log[i].type = "PeerDisconnected"
  /\ \A j \in 1..(i - 1) : ~(log[j].type = "PeerConnected" /\ log[j].id = log[i].id)

\* C35: every PeerDisconnected(id) is preceded by a PeerConnected with that
\* id; none carries the placeholder id of a pending offer.
C35_DisconnectedAfterConnected ==
  \A i \in DOMAIN peerEvents :
    ~Unannounced(peerEvents, i) /\ peerEvents[i] # [type |-> "PeerDisconnected", id |-> localPeerId]

\* the close event of a channel that had opened reports the id that its open
\* event reported
C35_OpenedChannelsKeepId ==
  [][ \A t \in Transports : (onclose(t) /\ recvState[t] # "none") =>
        \E j \in DOMAIN peerEvents :
          peerEvents[j] = [type |-> "PeerConnected", id |-> peer[t].id] ]_vars

\* a pending offer was closed by disconnect() and its close event has emitted
\* PeerDisconnected with the placeholder id, no PeerConnected before it
C35_PlaceholderDisconnected ==
  /\ peerEvents # << >>
  /\ peerEvents[1] = [type |-> "PeerDisconnected", id |-> localPeerId]

\* --------------------------------------------------- the offline upload queue
\* Everything but the state of the offline manager.
transferVars == << uploadCalls, uploads, storage, file_chunks, shared_files,
                   screenVars, callerVars, toSend, peers, peer, nextT, connection, peerEvents,
                   callVars, readyState, buffered, wire, sf, recvState, receiverVars >>

\* offlineStorage.getUploadQueue(): store.getAll(), the records in key order
RECURSIVE getUploadQueue(_, _)
getUploadQueue(store, n) ==
  IF n \notin QueueIds THEN << >>
  ELSE (IF store[n] = "absent" THEN << >> ELSE << [id |-> n, kind |-> store[n]] >>)
       \o getUploadQueue(store, n + 1)

\* the id queueFileForUpload gives the next record it stores
FreshId ==
  MaxQueued + 1 + Cardinality({ h \in DOMAIN handed : handed[h].status = "queued" })

\* Object.assign(queuedUpload.file, {name, lastModified}): name and
\* lastModified of a File are accessors without a setter and the assignment
\* throws a TypeError; on a Blob it creates the two properties.
AssignThrows(kind) == kind = "File"

\* the first entry of q from index i on whose file object can be given a name
RECURSIVE NextAssignable(_, _)
NextAssignable(q, i) ==
  IF i > Len(q) \/ ~AssignThrows(q[i].kind) THEN i ELSE NextAssignable(q, i + 1)

\* the loop of processUploadQueue from index i up to its next await: every
\* entry whose Object.assign throws goes to the catch; the first other entry
\* is handed to onUploadFile (Index.handleUploadFile dispatches the change
\* event to FileUpload's input and handleFileSelect starts uploadFile when
\* online and queues the file again when offline), and the loop awaits
\* removeFromUploadQueue; after the last entry it awaits loadOfflineData.
Loop(r, q, i, store, online, failed) ==
  LET j == NextAssignable(q, i)
      caught == failed + (j - i)
  IN  IF j > Len(q)
      THEN /\ runs' = [runs EXCEPT ![r] =
                         [pc |-> "loading", queue |-> q, i |-> j, failed |-> caught]]
           /\ handed' = handed
           /\ queueStore' = store
      ELSE /\ online \/ FreshId \in QueueIds
           /\ runs' = [runs EXCEPT ![r] =
                         [pc |-> "removing", queue |-> q, i |-> j, failed |-> caught]]
           /\ handed' = Append(handed,
                          [id |-> q[j].id, run |-> r,
                           status |-> IF online THEN "uploading" ELSE "queued"])
           /\ queueStore' = IF online THEN store ELSE [store EXCEPT ![FreshId] = "Blob"]

\* processUploadQueue up to its first await
processUploadQueue(r, online) ==
  /\ runs[r].pc = "idle"
  /\ \A x \in Runs : x < r => runs[x].pc # "idle"
  /\ uploadQueue # << >>
  /\ isProcessingQueue' = TRUE
  /\ processedCount' = 0
  /\ Loop(r, uploadQueue, 1, queueStore, online, 0)
  /\ UNCHANGED uploadQueue

\* the Process Queue button, rendered when online and not processing
ProcessQueue ==
  /\ isOnline
  /\ ~isProcessingQueue
  /\ \E r \in Runs : processUploadQueue(r, isOnline)
  /\ UNCHANGED << isOnline, transferVars >>

\* the status changes to online: the effect on isOnline processes the queue
online ==
  /\ ~isOnline
  /\ isOnline' = TRUE
  /\ IF uploadQueue # << >>
     THEN \E r \in Runs : processUploadQueue(r, TRUE)
     ELSE UNCHANGED << queueStore, uploadQueue, isProcessingQueue, processedCount,
                       runs, handed >>
  /\ UNCHANGED transferVars

\* the status changes to offline
offline ==
  /\ isOnline
  /\ isOnline' = FALSE
  /\ UNCHANGED << queueStore, uploadQueue, isProcessingQueue, processedCount, runs,
                  handed, transferVars >>

\* offlineStorage.removeFromUploadQueue settles: the record is deleted, or the
\* request fails and the catch reports it; the loop goes on
removeFromUploadQueue(r, ok) ==
  /\ runs[r].pc = "removing"
  /\ LET q == runs[r].queue
         i == runs[r].i
     IN  /\ processedCount' = IF ok THEN i ELSE processedCount
         /\ Loop(r, q, i + 1,
                 IF ok THEN [queueStore EXCEPT ![q[i].id] = "absent"] ELSE queueStore,
                 isOnline, runs[r].failed + (IF ok THEN 0 ELSE 1))
  /\ UNCHANGED << uploadQueue, isOnline, isProcessingQueue, transferVars >>

\* loadOfflineData at the end of processUploadQueue settles, and the call ends
loadOfflineData(r, ok) ==
  /\ runs[r].pc = "loading"
  /\ uploadQueue' = IF ok THEN getUploadQueue(queueStore, 1) ELSE uploadQueue
  /\ isProcessingQueue' = FALSE
  /\ runs' = [runs EXCEPT ![r].pc = "done"]
  /\ UNCHANGED << queueStore, isOnline, processedCount, handed, transferVars >>

\* the uploadFile call that a handed file started ends: completed or failed
uploadEnds(h, status) ==
  /\ h \in DOMAIN handed
  /\ handed[h].status = "uploading"
  /\ handed' = [handed EXCEPT ![h].status = status]
  /\ UNCHANGED << queueStore, uploadQueue, isOnline, isProcessingQueue, processedCount,
                  runs, transferVars >>

\* The manager is mounted with uploads in the queue store that an earlier
\* session queued while offline, and has loaded them.
StoredKinds == {"Blob", "File"}

OfflineInit ==
  /\ toSend = [s \in Sends |-> NoFile]
  /\ OnePeer
  /\ FreshTransfer
  /\ \E n \in 1..MaxQueued : \E kinds \in [1..n -> StoredKinds] :
       queueStore = [id \in QueueIds |-> IF id <= n THEN kinds[id] ELSE "absent"]
  /\ uploadQueue = getUploadQueue(queueStore, 1)
  /\ isOnline \in BOOLEAN
  /\ isProcessingQueue = FALSE
  /\ processedCount = 0
  /\ runs = [r \in Runs |-> IdleRun]
  /\ handed = << >>

OfflineNext ==
  \/ ProcessQueue
  \/ online
  \/ offline
  \/ \E r \in Runs, ok \in BOOLEAN : removeFromUploadQueue(r, ok)
  \/ \E r \in Runs, ok \in BOOLEAN : loadOfflineData(r, ok)
  \/ \E h \in 1..(MaxRuns * 2 * MaxQueued), status \in {"completed", "failed"} :
       uploadEnds(h, status)

OfflineSpec == OfflineInit /\ [][OfflineNext]_vars

\* the record under id leaves the queue store in this step
Removed(id) == queueStore[id] # "absent" /\ queueStore'[id] = "absent"

\* an upload of the record under id has completed
Uploaded(id) ==
  \E h \in DOMAIN handed : handed[h].id = id /\ handed[h].status = "completed"

C36_RemovedAfterHanded ==
  [][ \A id \in QueueIds : Removed(id) =>
        \E h \in DOMAIN handed : handed[h].id = id ]_vars

\* the upload of a record has failed and the record is no longer in the store
C36_FailedUploadRemoved ==
  \E h \in DOMAIN handed :
    /\ handed[h].status = "failed"
    /\ queueStore[handed[h].id] = "absent"
    /\ \A g \in DOMAIN handed : handed[g].id = handed[h].id => g = h

C37_HandedOncePerRun ==
  \A g, h \in DOMAIN handed :
    (handed[g].id = handed[h].id /\ handed[g].run = handed[h].run) => g = h

\* two calls in progress at once have both handed the same queued upload to
\* the uploader while online, and no removal has failed
C37_HandedTwiceConcurrently ==
  \E g, h \in DOMAIN handed :
    /\ g < h /\ handed[g].id = handed[h].id /\ handed[g].run # handed[h].run
    /\ handed[g].status # "queued" /\ handed[h].status # "queued"
    /\ \A r \in Runs : runs[r].pc \in {"removing", "loading"} /\ runs[r].failed = 0

\* what the claim speaks of in a progress entry
Shown(e) == << e.completedChunks, e.percentage, e.status >>

\* the entry that uploadFile call v appended changes in this step, which is
\* no step of call v
ChangedByOther(v) ==
  /\ v <= Len(uploads)
  /\ Shown(uploads'[v]) # Shown(uploads[v])
  /\ uploadCalls'[v] = uploadCalls[v]

\* C38: the completedChunks, percentage and status of an upload's progress
\* entry change only in the steps of that upload.
C38_OwnEntryOnly ==
  [][ \A v \in Uploads : ~ChangedByOther(v) ]_vars

\* the same, for uploads of files with different names
C38_OwnEntryOnlyDistinctNames ==
  [][ \A v \in Uploads :
        ChangedByOther(v) =>
          \E u \in Uploads \ {v} : uploadCalls[u].file.name = uploadCalls[v].file.name ]_vars

\* two uploads of files of the same name: one has failed, the other is still
\* uploading a chunk and its entry shows status failed
C38_FailureShownOnOther ==
  \E u, v \in Uploads :
    /\ u # v /\ uploadCalls[u].file.name = uploadCalls[v].file.name
    /\ uploadCalls[u].pc = "failed"
    /\ uploadCalls[v].pc = "uploading"
    /\ v <= Len(uploads) /\ uploads[v].status = "failed"

\* ------------------------------------------------- the P2PFileSharing screen
\* The screen after initializeP2P: its Send and Receive tabs, and the engine
\* calls their buttons make.  connectionCode and pendingAnswer hold the number
\* of the transport whose code they show.
engineState == << peers, peer, nextT, connection, peerEvents, callVars, readyState,
                 buffered, wire, sf, recvState, receiverVars >>

screenRest == << uploadCalls, uploads, storage, file_chunks, shared_files, offlineVars,
                callerVars, toSend >>

\* the Start Sharing button of the Send tab: startSharing up to its await
startSharing ==
  /\ ~isSender
  /\ selectedFiles # << >>
  /\ createOffer

\* createOffer has returned its code, or thrown: setConnectionCode(code),
\* setIsSender(true), or the error toast
startSharingResumes(t) ==
  /\ call[t].op = "createOffer"
  /\ call[t].pc \in {"returned", "failed"}
  /\ << "offer", t >> \notin resumed
  /\ resumed' = resumed \cup { << "offer", t >> }
  /\ IF call[t].pc = "returned"
     THEN connectionCode' = t /\ isSender' = TRUE
     ELSE UNCHANGED << connectionCode, isSender >>
  /\ UNCHANGED << inputCode, pendingAnswer, screenRest, engineState >>

\* the Cancel button of the Send tab
cancelSharing ==
  /\ isSender
  /\ isSender' = FALSE
  /\ connectionCode' = 0
  /\ inputCode' = << >>
  /\ pendingAnswer' = 0
  /\ UNCHANGED << resumed, screenRest, engineState >>

\* the input for the receiver's code in the Send tab is rendered
AnswerInput == isSender /\ pendingAnswer # 0

\* the input for the sender's code in the Receive tab is rendered
OfferInput == pendingAnswer = 0

\* the user pastes a code into one of the two inputs: setInputCode
setInputCode(code) ==
  /\ AnswerInput \/ OfferInput
  /\ inputCode # code
  /\ inputCode' = code
  /\ UNCHANGED << isSender, connectionCode, pendingAnswer, resumed, screenRest,
                  engineState >>

\* the Connect & Receive button of the Receive tab: connectAndReceive up to
\* its await
connectAndReceive ==
  /\ OfferInput
  /\ inputCode # << >>
  /\ acceptOffer(inputCode)

\* acceptOffer has returned the answer code, or thrown: setPendingAnswer
connectAndReceiveResumes(t) ==
  /\ call[t].op = "acceptOffer"
  /\ call[t].pc \in {"returned", "failed"}
  /\ << "answer", t >> \notin resumed
  /\ resumed' = resumed \cup { << "answer", t >> }
  /\ pendingAnswer' = IF call[t].pc = "returned" THEN t ELSE pendingAnswer
  /\ UNCHANGED << isSender, connectionCode, inputCode, screenRest, engineState >>

\* the Cancel button of the Receive tab
cancelReceiving ==
  /\ pendingAnswer # 0
  /\ inputCode' = << >>
  /\ pendingAnswer' = 0
  /\ UNCHANGED << isSender, connectionCode, resumed, screenRest, engineState >>

\* the Connect button next to the input for the receiver's code:
\* completeAsReceiver up to its await
completeAsReceiver(c) ==
  /\ AnswerInput
  /\ inputCode # << >>
  /\ completeConnection(c, inputCode)

\* completeConnection has returned, or thrown
completeAsReceiverResumes(c) ==
  /\ cc[c].pc \in {"done", "failed"}
  /\ << "complete", c >> \notin resumed
  /\ resumed' = resumed \cup { << "complete", c >> }
  /\ IF cc[c].pc = "done"
     THEN connectionCode' = 0 /\ inputCode' = << >> /\ pendingAnswer' = 0
     ELSE UNCHANGED << connectionCode, inputCode, pendingAnswer >>
  /\ UNCHANGED << isSender, screenRest, engineState >>

\* the codes the peer shows: its offer, and its answers to the offers shown
ShownCodes == WellFormedOffers \cup Answers

ScreenInit ==
  /\ toSend = [s \in Sends |-> NoFile]
  /\ localPeerName = Ana
  /\ limit = [transports |-> MaxNegotiations, completes |-> MaxCompletes]
  /\ Fresh

ScreenNext ==
  \/ handleFileSelect(<< SmallFile >>)
  \/ startSharing
  \/ \E t \in Transports : startSharingResumes(t)
  \/ cancelSharing
  \/ \E code \in ShownCodes : setInputCode(code)
  \/ connectAndReceive
  \/ \E t \in Transports : connectAndReceiveResumes(t)
  \/ cancelReceiving
  \/ \E c \in Completes : completeAsReceiver(c)
  \/ \E c \in Completes : completeAsReceiverResumes(c)
  \/ \E t \in Transports : setLocalDescription(t)
  \/ \E t \in Transports : icegatheringstatechange(t)
  \/ \E c \in Completes : setRemoteDescription(c)
  \/ \E t \in Transports : onopen(t)
  \/ \E t \in Transports : ondatachannel(t)

ScreenSpec == ScreenInit /\ [][ScreenNext]_vars

\* the screen is in sender mode and shows the code of an offer that the
\* registry holds as pending and that no answer has been applied to
OfferCreated ==
  /\ isSender
  /\ connectionCode # 0
  /\ Pending = connectionCode
  /\ remoteDescription[connectionCode] = Undefined

\* C39: whenever the screen is in sender mode with an outstanding offer, the
\* input for the receiver's answer code and its Connect button are rendered.
C39_AnswerControlAvailable == OfferCreated => AnswerInput

\* the input for the receiver's answer code is rendered only after this
\* device has itself accepted an offer in the Receive tab
C39_ControlOnlyAfterAccepting ==
  AnswerInput =>
    \E t \in Transports : call[t].op = "acceptOffer" /\ call[t].pc = "returned"

\* sender mode with an outstanding offer, no answer input, and no Receive-tab
\* call made or in progress
C39_SenderWithoutControl ==
  /\ OfferCreated /\ ~AnswerInput
  /\ \A t \in Transports : call[t].op # "acceptOffer"

\* the channel of an offer made on the screen has opened
C39_ConnectedAsSender ==
  \E t \in Transports : call[t].op = "createOffer" /\ readyState[t] = "open"
====
